---- MODULE Spec2Model ----
(***************************************************************************)
(* A model of vue-tsc-rs: the position utilities (crates/source-map), the  *)
(* component parser (crates/vue-parser), the template parser               *)
(* (crates/vue-template-compiler), the code generator (crates/vue-codegen),*)
(* the diagnostic remapper (crates/ts-runner), the Vue diagnostics         *)
(* (crates/vue-diagnostics) and the parallel run of them over the files    *)
(* (crates/vue-tsc-rs).                                                    *)
(*                                                                         *)
(* Strings are sequences of bytes.  A byte is a one-character string; the  *)
(* two-byte character of the model is the lead byte "^" followed by the    *)
(* continuation byte "~", so byte offsets and character boundaries differ  *)
(* exactly as they do in Rust's UTF-8 &str.                                *)
(*                                                                         *)
(* Each component has its own variables and its own specification; a       *)
(* specification pins the variables of the other components.               *)
(***************************************************************************)
EXTENDS Integers, Sequences, FiniteSets, TLC

VARIABLES
    builder,      \* CodeBuilder { code, source_map }
    calls,        \* history: the push_mapped calls made, with the offset each saw
    smap,         \* a SourceMap built directly through add / add_mapping / merge
    smap_query,   \* the last find_source call on smap: [g, found]
    li_text,      \* the text a LineIndex was built from
    li_index,     \* Option<LineIndex { line_starts, len }>
    li_probe,     \* the last round trip: [offset, line_col, back]
    sfc_source,   \* the component file handed to parse_sfc
    sfc_out,      \* Option<outcome of parse_sfc(sfc_source)>
    sfc_blocks,   \* the blocks sfc_source was assembled from, when it was
    tpl_source,   \* the template text handed to parse_template
    tpl_out,      \* Option<outcome of parse_template(tpl_source)>
    tpl_attrs,    \* the attributes written on the first element of tpl_source
    gen_source,   \* the component file handed to parse_sfc and then generate
    gen_out,      \* Option<outcome of generate(parse_sfc(gen_source))>
    ex_raw,       \* the text of the template expression handed to generate_expression
    ex_scope,     \* the names on the scope stack when it was handed over
    ex_out,       \* Option<generator state after generate_expression>
    rm_files,     \* the synthetic files written so far: path -> text
    rm_reg,       \* DiagnosticRemapper { virtual_to_original, source_maps, line_indices }
    rm_input,     \* the diagnostics as the type checker reported them
    rm_diags,     \* TsDiagnostics.diagnostics, remapped in place
    rm_done,      \* remap_all has run
    dg_input,     \* the text handed to a diagnostics function
    dg_options,   \* the DiagnosticOptions handed over with it
    dg_out,       \* Option<what the diagnostics function returned>
    sc_mapping,   \* Option<the one SourceMapping of a map, its fields u32 values>
    sc_offset,    \* the generated offset handed to to_source_offset
    sc_out,       \* Option<outcome of to_source_offset(sc_offset)>
    or_running,   \* run_vue_diagnostics has been called and has not returned
    or_outcome,   \* file -> what check_vue_file(file) does
    or_queue,     \* the files par_iter has not handed to a worker yet
    or_worker,    \* worker -> [pc, file, seen]
    or_lock,      \* Option<the worker holding the MutexGuard of results>
    or_results,   \* the Vec inside the Mutex
    or_returned   \* Option<the Vec run_vue_diagnostics returned>

builderVars == <<builder, calls>>
smapVars == <<smap, smap_query>>
lineVars == <<li_text, li_index, li_probe>>
sfcVars == <<sfc_source, sfc_out, sfc_blocks>>
tplVars == <<tpl_source, tpl_out, tpl_attrs>>
genVars == <<gen_source, gen_out>>
exprVars == <<ex_raw, ex_scope, ex_out>>
remapVars == <<rm_files, rm_reg, rm_input, rm_diags, rm_done>>
diagVars == <<dg_input, dg_options, dg_out>>
scaleVars == <<sc_mapping, sc_offset, sc_out>>
orchVars == <<or_running, or_outcome, or_queue, or_worker, or_lock, or_results, or_returned>>

vars == <<builder, calls, smap, smap_query, li_text, li_index, li_probe,
          sfc_source, sfc_out, sfc_blocks, tpl_source, tpl_out, tpl_attrs,
          gen_source, gen_out, ex_raw, ex_scope, ex_out,
          rm_files, rm_reg, rm_input, rm_diags, rm_done,
          dg_input, dg_options, dg_out, sc_mapping, sc_offset, sc_out,
          or_running, or_outcome, or_queue, or_worker, or_lock, or_results,
          or_returned>>

\* What an action of one component leaves alone: the other components.
notBuilder == <<smapVars, lineVars, sfcVars, tplVars, genVars, remapVars, exprVars,
    diagVars, scaleVars, orchVars>>
notSmap == <<builderVars, lineVars, sfcVars, tplVars, genVars, remapVars, exprVars,
    diagVars, scaleVars, orchVars>>
notLine == <<builderVars, smapVars, sfcVars, tplVars, genVars, remapVars, exprVars,
    diagVars, scaleVars, orchVars>>
notSfc == <<builderVars, smapVars, lineVars, tplVars, genVars, remapVars, exprVars,
    diagVars, scaleVars, orchVars>>
notTpl == <<builderVars, smapVars, lineVars, sfcVars, genVars, remapVars, exprVars,
    diagVars, scaleVars, orchVars>>
notGen == <<builderVars, smapVars, lineVars, sfcVars, tplVars, remapVars, exprVars,
    diagVars, scaleVars, orchVars>>
notRemap == <<builderVars, smapVars, lineVars, sfcVars, tplVars, genVars, exprVars,
    diagVars, scaleVars, orchVars>>
notExpr == <<builderVars, smapVars, lineVars, sfcVars, tplVars, genVars, remapVars,
    diagVars, scaleVars, orchVars>>
notDiag == <<builderVars, smapVars, lineVars, sfcVars, tplVars, genVars, remapVars,
    exprVars, scaleVars, orchVars>>
notScale == <<builderVars, smapVars, lineVars, sfcVars, tplVars, genVars, remapVars,
    exprVars, diagVars, orchVars>>
notOrch == <<builderVars, smapVars, lineVars, sfcVars, tplVars, genVars, remapVars,
    exprVars, diagVars, scaleVars>>

(***************************************************************************)
(* Bounds of the model.                                                    *)
(***************************************************************************)
MaxCode == 3       \* bytes of generated code a SpecBuilder run emits
MaxMappings == 3   \* mappings a SpecBuilder run records
MaxSrc == 1        \* largest source offset / source length a SpecBuilder call passes
MaxMapLen == 3     \* mappings a SpecSourceMap run stores
MaxGen == 2        \* largest generated offset a SpecSourceMap call passes
MaxGenLen == 2     \* largest generated length a SpecSourceMap call passes
MaxText == 4       \* bytes of the text a LineIndex is built from
MaxCalls == 3      \* push_mapped calls of a SpecMapped run
MaxCallSrc == 2    \* largest source offset a SpecMapped call passes
MaxSfcFrags == 3   \* markup fragments a SpecSfc component file is made of
MaxBlocks == 3     \* blocks a SpecSfcBlocks component file is assembled from
MaxTplFrags == 3   \* markup fragments a SpecTpl template text is made of
MaxScopeFrags == 2 \* markup fragments a SpecScope template body is made of
MaxExprLen == 3    \* characters of a template expression drawn from ExprAlphabet
MaxAttrs == 2      \* attributes on the first element of a SpecTplTree template
MaxGenFrags == 2   \* markup fragments a SpecGen template block is made of
MaxDiags == 2      \* diagnostics the type checker reports in a SpecRemap run
MaxDiagFrags == 2
MaxMacroFrags == 3
MaxCased == 3
MaxFiles == 3
MaxWorkers == 2
MaxNestFrags == 3  \* markup fragments a SpecNest template block holds
MaxCondFrags == 2  \* markup fragments a SpecCond template body is made of
MaxSmall == 3      \* the small offsets and lengths of a SpecScale mapping are 0..MaxSmall
MaxVirtualLen == 6 \* bytes of the longest synthetic file of SpecRemap

(***************************************************************************)
(* Option<T>: None is the empty sequence, Some(x) the one-element one.     *)
(***************************************************************************)
None == <<>>
Some(x) == <<x>>
IsSome(o) == Len(o) = 1
Unwrap(o) == o[1]

Min(a, b) == IF a < b THEN a ELSE b
Max(a, b) == IF a < b THEN b ELSE a

\* `let v = e;` followed by the rest of the function: Body applied to e.
\* The test on e has e evaluated here, once, before the rest runs, as the
\* statement is.
Bind(e, Body(_)) == IF e = e THEN Body(e) ELSE e

(***************************************************************************)
(* UTF-8 text: bytes, characters and character boundaries.                 *)
(***************************************************************************)
LeadByte == "^"
ContByte == "~"

\* char::len_utf8 of the character whose first byte is b.
CharLen(b) == IF b = LeadByte THEN 2 ELSE 1

\* The byte strings that are valid UTF-8.
IsUtf8(s) ==
    \A i \in 1..Len(s) :
        /\ s[i] = LeadByte => (i < Len(s) /\ s[i + 1] = ContByte)
        /\ s[i] = ContByte => (i > 1 /\ s[i - 1] = LeadByte)

\* str::is_char_boundary(i), i counted from 0.
IsCharBoundary(s, i) ==
    \/ i = 0
    \/ i = Len(s)
    \/ (i < Len(s) /\ s[i + 1] # ContByte)

(***************************************************************************)
(* Library operations the code calls.                                      *)
(***************************************************************************)

\* slice::partition_point as the call sites use it: a bisection over the
\* predicate's values, flags[i] being pred(slice[i-1]).  On a partitioned
\* slice it is the index of the first element the predicate rejects.
RECURSIVE Bisect(_, _, _)
Bisect(flags, left, right) ==
    IF left < right
    THEN LET mid == left + ((right - left) \div 2)
         IN  IF flags[mid + 1]
             THEN Bisect(flags, mid + 1, right)
             ELSE Bisect(flags, left, mid)
    ELSE left

partition_point(flags) == Bisect(flags, 0, Len(flags))

\* Vec::insert(pos, x), pos counted from 0.
VecInsert(v, pos, x) == SubSeq(v, 1, pos) \o <<x>> \o SubSeq(v, pos + 1, Len(v))

(***************************************************************************)
(* crates/source-map: LineIndex                                            *)
(***************************************************************************)

\* The loop of LineIndex::new over text.char_indices(), from byte i on.
RECURSIVE LineStartsFrom(_, _)
LineStartsFrom(text, i) ==
    IF i >= Len(text)
    THEN <<>>
    ELSE LET c == text[i + 1]
         IN  (IF c = "\n" THEN <<i + 1>> ELSE <<>>)
                 \o LineStartsFrom(text, i + CharLen(c))

LineIndex_new(text) ==
    [line_starts |-> <<0>> \o LineStartsFrom(text, 0), len |-> Len(text)]

LineCol_new(line, col) == [line |-> line, col |-> col]

\* line_col with the partition point taken as the line number.
LineIndex_line_col_no_sub(index, offset) ==
    LET line == partition_point(
                    [i \in 1..Len(index.line_starts) |->
                        index.line_starts[i] <= offset])
        line_start == index.line_starts[Min(line, Len(index.line_starts) - 1) + 1]
    IN  LineCol_new(line, offset - line_start)

LineIndex_line_col(index, offset) ==
    LET line == Max(partition_point(
                        [i \in 1..Len(index.line_starts) |->
                            index.line_starts[i] <= offset]) - 1, 0)
        line_start == index.line_starts[line + 1]
    IN  LineCol_new(line, offset - line_start)

LineIndex_offset(index, line_col) ==
    IF line_col.line >= Len(index.line_starts)
    THEN None
    ELSE LET offset == index.line_starts[line_col.line + 1] + line_col.col
         IN  IF offset <= index.len THEN Some(offset) ELSE None

(***************************************************************************)
(* crates/source-map: SourceMapping, SourceMap                             *)
(***************************************************************************)

SourceMapping_new_with_lengths(generated_offset, generated_length, source_offset, source_length) ==
    [generated_offset |-> generated_offset,
     generated_length |-> generated_length,
     source_offset    |-> source_offset,
     source_length    |-> source_length]

SourceMapping_new(generated_offset, source_offset, length) ==
    SourceMapping_new_with_lengths(generated_offset, length, source_offset, length)

SourceMap_add_mapping(mappings, mapping) ==
    LET pos == partition_point(
                   [i \in 1..Len(mappings) |->
                       mappings[i].generated_offset < mapping.generated_offset])
    IN  VecInsert(mappings, pos, mapping)

SourceMap_add(mappings, generated_offset, source_offset, length) ==
    SourceMap_add_mapping(mappings,
        SourceMapping_new(generated_offset, source_offset, length))

Covers(m, g) ==
    /\ m.generated_offset <= g
    /\ g < m.generated_offset + m.generated_length

SourceMap_find_source(mappings, generated_offset) ==
    LET idx == partition_point(
                   [i \in 1..Len(mappings) |->
                       mappings[i].generated_offset + mappings[i].generated_length
                           <= generated_offset])
    IN  IF idx > 0 /\ Covers(mappings[idx], generated_offset)
        THEN Some(mappings[idx])
        ELSE IF idx < Len(mappings) /\ Covers(mappings[idx + 1], generated_offset)
        THEN Some(mappings[idx + 1])
        ELSE None

SourceMap_to_source_offset(mappings, generated_offset) ==
    LET found == SourceMap_find_source(mappings, generated_offset)
    IN  IF IsSome(found)
        THEN LET m == Unwrap(found)
                 delta == generated_offset - m.generated_offset
             IN  IF m.generated_length = m.source_length
                 THEN Some(m.source_offset + delta)
                 ELSE IF m.generated_length > 0
                 THEN Some(m.source_offset
                           + ((delta * m.source_length) \div m.generated_length))
                 ELSE Some(m.source_offset)
        ELSE None

RECURSIVE MergeFrom(_, _, _)
MergeFrom(mappings, other, i) ==
    IF i > Len(other)
    THEN mappings
    ELSE MergeFrom(SourceMap_add_mapping(mappings, other[i]), other, i + 1)

SourceMap_merge(mappings, other) == MergeFrom(mappings, other, 1)

(***************************************************************************)
(* crates/source-map: CodeBuilder                                          *)
(***************************************************************************)

CodeBuilder_new == [code |-> <<>>, source_map |-> <<>>]

CodeBuilder_offset(b) == Len(b.code)

CodeBuilder_push_str(b, code) == [b EXCEPT !.code = @ \o code]

CodeBuilder_push(b, c) == [b EXCEPT !.code = Append(@, c)]

CodeBuilder_newline(b) == [b EXCEPT !.code = Append(@, "\n")]

\* push_mapped reading the builder offset after the code was appended.
CodeBuilder_push_mapped_late(b, code, source_offset) ==
    LET len == Len(code)
        generated_offset == Len(b.code) + len
    IN  [code |-> b.code \o code,
         source_map |->
            IF len > 0
            THEN SourceMap_add(b.source_map, generated_offset, source_offset, len)
            ELSE b.source_map]

CodeBuilder_push_mapped(b, code, source_offset) ==
    LET generated_offset == CodeBuilder_offset(b)
        len == Len(code)
    IN  [code |-> b.code \o code,
         source_map |->
            IF len > 0
            THEN SourceMap_add(b.source_map, generated_offset, source_offset, len)
            ELSE b.source_map]

CodeBuilder_push_with_mapping(b, code, source_offset, source_length) ==
    LET generated_offset == CodeBuilder_offset(b)
        generated_length == Len(code)
    IN  [code |-> b.code \o code,
         source_map |->
            IF generated_length > 0 \/ source_length > 0
            THEN SourceMap_add_mapping(b.source_map,
                     SourceMapping_new_with_lengths(generated_offset,
                         generated_length, source_offset, source_length))
            ELSE b.source_map]

(***************************************************************************)
(* Characters.  A character is named by its first byte; the model's        *)
(* alphabet is ASCII plus the one two-byte character, which is neither     *)
(* whitespace nor alphanumeric and has no other case.                      *)
(***************************************************************************)
LowerSeq ==
    <<"a", "b", "c", "d", "e", "f", "g", "h", "i", "j", "k", "l", "m",
      "n", "o", "p", "q", "r", "s", "t", "u", "v", "w", "x", "y", "z">>

UpperSeq ==
    <<"A", "B", "C", "D", "E", "F", "G", "H", "I", "J", "K", "L", "M",
      "N", "O", "P", "Q", "R", "S", "T", "U", "V", "W", "X", "Y", "Z">>

AsciiLower == {LowerSeq[i] : i \in 1..Len(LowerSeq)}
AsciiUpper == {UpperSeq[i] : i \in 1..Len(UpperSeq)}
AsciiDigit == {"0", "1", "2", "3", "4", "5", "6", "7", "8", "9"}
Whitespace == {" ", "\t", "\n", "\r"}
Punctuation ==
    {"<", ">", "/", "=", "\"", "'", "!", "-", "_", ":", "@", "#", ".", "[",
     "]", "{", "}", "(", ")", ",", "\\", "$", "+", ";", "*", "?", "&", "|"}

\* Every character of the alphabet, the two-byte one named by its lead byte.
Chars ==
    AsciiLower \cup AsciiUpper \cup AsciiDigit \cup Whitespace
        \cup Punctuation \cup {LeadByte}

is_ascii_alphabetic(c) == c \in AsciiLower \cup AsciiUpper
is_ascii_alphanumeric(c) == c \in AsciiLower \cup AsciiUpper \cup AsciiDigit
is_whitespace(c) == c \in Whitespace
is_uppercase(c) == c \in AsciiUpper

to_ascii_lowercase(c) ==
    IF c \in AsciiUpper
    THEN LowerSeq[CHOOSE i \in 1..Len(UpperSeq) : UpperSeq[i] = c]
    ELSE c

\* str::to_lowercase / to_ascii_lowercase, which agree on the alphabet.
to_lowercase(s) == [i \in 1..Len(s) |-> to_ascii_lowercase(s[i])]

eq_ignore_ascii_case(a, b) == to_lowercase(a) = to_lowercase(b)

\* str::starts_with at byte offset pos of s.
StartsWithAt(s, pos, pat) ==
    /\ pos + Len(pat) <= Len(s)
    /\ SubSeq(s, pos + 1, pos + Len(pat)) = pat

\* &s[from..to], byte offsets counted from 0.
Slice(s, from, to) == SubSeq(s, from + 1, to)

\* str::chars().nth(n): the n-th character of s, scanning from byte i.
RECURSIVE CharsNth(_, _, _)
CharsNth(s, i, n) ==
    IF i >= Len(s) THEN None
    ELSE IF n = 0 THEN Some(s[i + 1])
    ELSE CharsNth(s, i + CharLen(s[i + 1]), n - 1)

\* str::find(pat) from byte i on: Option<byte offset of the first match>.
RECURSIVE FindFrom(_, _, _)
FindFrom(s, pat, i) ==
    IF i + Len(pat) > Len(s) THEN None
    ELSE IF StartsWithAt(s, i, pat) THEN Some(i)
    ELSE FindFrom(s, pat, i + 1)

StrFind(s, pat) == FindFrom(s, pat, 0)
StrContains(s, pat) == IsSome(StrFind(s, pat))

\* str::trim_start / trim_end / trim as byte offsets into s.
RECURSIVE TrimStartAt(_, _)
TrimStartAt(s, i) ==
    IF i < Len(s) /\ is_whitespace(s[i + 1]) THEN TrimStartAt(s, i + 1) ELSE i

RECURSIVE TrimEndAt(_, _, _)
TrimEndAt(s, from, j) ==
    IF j > from /\ is_whitespace(s[j]) THEN TrimEndAt(s, from, j - 1) ELSE j

StrTrim(s) ==
    LET from == TrimStartAt(s, 0)
    IN  Slice(s, from, TrimEndAt(s, from, Len(s)))

\* str::split(sep) for a one-byte separator: the pieces, in order.
RECURSIVE SplitFrom(_, _, _, _)
SplitFrom(s, seps, from, i) ==
    IF i >= Len(s) THEN <<Slice(s, from, Len(s))>>
    ELSE IF s[i + 1] \in seps
         THEN <<Slice(s, from, i)>> \o SplitFrom(s, seps, i + 1, i + 1)
         ELSE SplitFrom(s, seps, from, i + 1)

StrSplit(s, seps) == SplitFrom(s, seps, 0, 0)

SetMin(S) == CHOOSE x \in S : \A y \in S : x <= y
SetMax(S) == CHOOSE x \in S : \A y \in S : y <= x

\* str::split(sep).next(): the first piece only, as the iterator yields it.
StrSplitFirst(s, seps) ==
    IF \E i \in 1..Len(s) : s[i] \in seps
    THEN SubSeq(s, 1, SetMin({i \in 1..Len(s) : s[i] \in seps}) - 1)
    ELSE s

(***************************************************************************)
(* crates/source-map: Span                                                 *)
(***************************************************************************)
\* Span::empty with the span opened at the start of the file.
Span_empty_from_zero(offset) == [start |-> 0, end |-> offset]

Span_new(start, end) == [start |-> start, end |-> end]
Span_empty(offset) == [start |-> offset, end |-> offset]

(***************************************************************************)
(* crates/vue-parser: SfcLexer.  The lexer is its source and a byte        *)
(* cursor; each operation is given both and returns the new cursor.        *)
(***************************************************************************)
SfcLexer_remaining(source, pos) == SubSeq(source, pos + 1, Len(source))

SfcLexer_is_eof(source, pos) == pos >= Len(source)

SfcLexer_peek_char(source, pos) ==
    IF pos < Len(source) THEN Some(source[pos + 1]) ELSE None

SfcLexer_next_char(source, pos) ==
    IF pos < Len(source) THEN pos + CharLen(source[pos + 1]) ELSE pos

SfcLexer_starts_with(source, pos, s) == StartsWithAt(source, pos, s)

SfcLexer_consume(source, pos, s) ==
    IF SfcLexer_starts_with(source, pos, s) THEN pos + Len(s) ELSE pos

\* consume_while(pred), pred given as the set of characters it accepts.
RECURSIVE SfcLexer_consume_while(_, _, _)
SfcLexer_consume_while(source, pos, pred) ==
    IF pos < Len(source) /\ source[pos + 1] \in pred
    THEN SfcLexer_consume_while(source, SfcLexer_next_char(source, pos), pred)
    ELSE pos

SfcLexer_skip_whitespace(source, pos) ==
    SfcLexer_consume_while(source, pos, Whitespace)

RECURSIVE SfcLexer_consume_until(_, _, _)
SfcLexer_consume_until(source, pos, s) ==
    IF pos < Len(source) /\ ~SfcLexer_starts_with(source, pos, s)
    THEN SfcLexer_consume_until(source, SfcLexer_next_char(source, pos), s)
    ELSE pos

TagNameChars ==
    AsciiLower \cup AsciiUpper \cup AsciiDigit \cup {"-", "_", ":"}

SfcLexer_read_tag_name(source, pos) ==
    IF pos < Len(source)
       /\ (is_ascii_alphabetic(source[pos + 1]) \/ source[pos + 1] = "_")
    THEN LET end == SfcLexer_consume_while(source, pos + 1, TagNameChars)
         IN  [name |-> Some(Slice(source, pos, end)), pos |-> end]
    ELSE [name |-> None, pos |-> pos]

AttrNameChars ==
    AsciiLower \cup AsciiUpper \cup AsciiDigit \cup {"-", "_", ":", ".", "[", "]"}

SfcLexer_read_attr_name(source, pos) ==
    IF pos < Len(source)
       /\ (\/ is_ascii_alphabetic(source[pos + 1])
           \/ source[pos + 1] \in {"_", ":", "@", "#", "v"})
    THEN LET end == SfcLexer_consume_while(source, pos + 1, AttrNameChars)
         IN  [name |-> Some(Slice(source, pos, end)), pos |-> end]
    ELSE [name |-> None, pos |-> pos]

\* The `while let` loop of read_quoted_string: where the value ends and
\* where the cursor is left.
RECURSIVE SfcLexer_read_quoted_string_loop(_, _, _)
SfcLexer_read_quoted_string_loop(source, pos, quote) ==
    IF pos >= Len(source) THEN [value_end |-> pos, pos |-> pos]
    ELSE IF source[pos + 1] = quote
         THEN [value_end |-> pos, pos |-> SfcLexer_next_char(source, pos)]
    ELSE IF source[pos + 1] = "\\"
         THEN SfcLexer_read_quoted_string_loop(source,
                  SfcLexer_next_char(source, SfcLexer_next_char(source, pos)),
                  quote)
    ELSE SfcLexer_read_quoted_string_loop(source,
             SfcLexer_next_char(source, pos), quote)

SfcLexer_read_quoted_string(source, pos) ==
    IF pos >= Len(source) \/ source[pos + 1] \notin {"\"", "'"}
    THEN None
    ELSE Bind(SfcLexer_read_quoted_string_loop(source, pos + 1, source[pos + 1]),
              LAMBDA r :
              Some([value |-> Slice(source, pos + 1, r.value_end), pos |-> r.pos]))

\* The characters that end an unquoted attribute value.
UnquotedValueStop == Whitespace \cup {">", "/", "="}

SfcLexer_read_unquoted_value(source, pos) ==
    SfcLexer_consume_while(source, pos, Chars \ UnquotedValueStop)

SfcLexer_read_comment(source, pos) ==
    IF ~SfcLexer_starts_with(source, pos, <<"<", "!", "-", "-">>)
    THEN None
    ELSE Bind(SfcLexer_consume_until(source, pos + 4, <<"-", "-", ">">>),
              LAMBDA end :
              Some([content |-> Slice(source, pos + 4, end),
                    pos |-> SfcLexer_consume(source, end, <<"-", "-", ">">>)]))

\* The characters that may follow the end-tag name in read_block_content.
AfterEndTag == {Some(">"), Some(" "), Some("\t"), Some("\n"), Some("\r"), None}

\* &remaining[..pattern.len()] panics when pattern.len() is not a character
\* boundary of remaining.
SfcLexer_end_tag_slice_panics(source, pos, pattern) ==
    /\ Len(source) - pos >= Len(pattern)
    /\ ~IsCharBoundary(SfcLexer_remaining(source, pos), Len(pattern))

\* The closing tag starts at pos: the pattern, in any case, followed by one
\* of the characters that may end a tag name.
SfcLexer_at_end_tag(source, pos, pattern) ==
    /\ Len(source) - pos >= Len(pattern)
    /\ eq_ignore_ascii_case(Slice(source, pos, pos + Len(pattern)), pattern)
    /\ CharsNth(SfcLexer_remaining(source, pos), 0, Len(pattern)) \in AfterEndTag

\* The cursor reaches p from pos by next_char steps: a step from a lead
\* byte skips the byte after it, so p is reached when the lead bytes
\* directly before it, back to pos, are even in number.
SfcLexer_reaches(source, pos, p) ==
    \/ p = pos
    \/ (p <= Len(source) /\ source[p] # LeadByte)
    \/ (p - SetMax({pos} \cup {j \in (pos + 1)..Min(p, Len(source)) :
                                  source[j] # LeadByte})) % 2 = 0

SfcLexer_leaves_block_content(source, pos, pattern) ==
    \/ pos >= Len(source)
    \/ SfcLexer_end_tag_slice_panics(source, pos, pattern)
    \/ SfcLexer_at_end_tag(source, pos, pattern)

\* The loop of read_block_content: it leaves at the end of the text, at a
\* panic of the slice, or at the closing tag, and steps one character
\* otherwise; the cursor stops at the first position it reaches where it
\* leaves.
SfcLexer_read_block_content_loop(source, pos0, pattern) ==
    Bind(SetMin({p \in pos0..(Len(source) + 1) :
                    /\ SfcLexer_reaches(source, pos0, p)
                    /\ SfcLexer_leaves_block_content(source, p, pattern)}),
         LAMBDA pos :
    [pos |-> pos,
     panicked |-> pos < Len(source)
                  /\ SfcLexer_end_tag_slice_panics(source, pos, pattern)])

SfcLexer_read_block_content(source, pos, closing_tag) ==
    SfcLexer_read_block_content_loop(source, pos, <<"<", "/">> \o closing_tag)

(***************************************************************************)
(* crates/vue-parser: Sfc and SfcParser                                    *)
(***************************************************************************)
Str_template == <<"t", "e", "m", "p", "l", "a", "t", "e">>
Str_script == <<"s", "c", "r", "i", "p", "t">>
Str_style == <<"s", "t", "y", "l", "e">>
Str_setup == <<"s", "e", "t", "u", "p">>
Str_lang == <<"l", "a", "n", "g">>
Str_src == <<"s", "r", "c">>
Str_generic == <<"g", "e", "n", "e", "r", "i", "c">>
Str_functional == <<"f", "u", "n", "c", "t", "i", "o", "n", "a", "l">>
Str_scoped == <<"s", "c", "o", "p", "e", "d">>
Str_module == <<"m", "o", "d", "u", "l", "e">>
Str_dollar_style == <<"$", "s", "t", "y", "l", "e">>

Sfc_new(content) ==
    [content |-> content, template |-> None, script |-> None,
     script_setup |-> None, styles |-> <<>>, custom_blocks |-> <<>>,
     comments |-> <<>>]

BlockAttr_boolean(name, span) ==
    [name |-> name, value |-> None, span |-> span, value_span |-> None]

BlockAttr_with_value(name, value, span, value_span) ==
    [name |-> name, value |-> Some(value), span |-> span,
     value_span |-> Some(value_span)]

ParseError_duplicate_block(block_type, span) ==
    [kind |-> "DuplicateBlock", block_type |-> block_type, span |-> span]

\* attrs.iter().find(|a| a.name.eq_ignore_ascii_case(name))
FindAttr(attrs, name) ==
    LET hits == {i \in 1..Len(attrs) : eq_ignore_ascii_case(attrs[i].name, name)}
    IN  IF hits = {} THEN None ELSE Some(attrs[SetMin(hits)])

get_attr_value(attrs, name) ==
    IF IsSome(FindAttr(attrs, name)) THEN Unwrap(FindAttr(attrs, name)).value ELSE None

get_attr_value_span(attrs, name) ==
    IF IsSome(FindAttr(attrs, name)) THEN Unwrap(FindAttr(attrs, name)).value_span ELSE None

has_attr(attrs, name) == IsSome(FindAttr(attrs, name))

get_src_attr(attrs) ==
    LET a == FindAttr(attrs, Str_src)
    IN  IF IsSome(a) /\ IsSome(Unwrap(a).value)
        THEN Some([value |-> Unwrap(Unwrap(a).value),
                   span |-> Unwrap(a).span,
                   value_span |-> Unwrap(Unwrap(a).value_span)])
        ELSE None

\* The loop of parse_attributes: the attributes read and the cursor after.
RECURSIVE SfcParser_parse_attributes_loop(_, _, _)
SfcParser_parse_attributes_loop(source, pos0, attrs) ==
    Bind(SfcLexer_skip_whitespace(source, pos0), LAMBDA attr_start :
    IF \/ SfcLexer_starts_with(source, attr_start, <<">">>)
       \/ SfcLexer_starts_with(source, attr_start, <<"/", ">">>)
       \/ SfcLexer_is_eof(source, attr_start)
    THEN [attrs |-> attrs, pos |-> attr_start]
    ELSE
    Bind(SfcLexer_read_attr_name(source, attr_start), LAMBDA n :
    IF n.name = None
    THEN SfcParser_parse_attributes_loop(source,
             SfcLexer_next_char(source, attr_start), attrs)
    ELSE
    Bind(SfcLexer_skip_whitespace(source, n.pos), LAMBDA p1 :
    IF SfcLexer_starts_with(source, p1, <<"=">>)
    THEN Bind(SfcLexer_skip_whitespace(source, p1 + 1), LAMBDA p2 :
         IF \/ SfcLexer_starts_with(source, p2, <<"\"">>)
            \/ SfcLexer_starts_with(source, p2, <<"'">>)
         THEN \* value_start = pos + 1, value_end = pos - 1 after the read
              Bind(Unwrap(SfcLexer_read_quoted_string(source, p2)), LAMBDA q :
              SfcParser_parse_attributes_loop(source, q.pos,
                  Append(attrs,
                      BlockAttr_with_value(Unwrap(n.name), q.value,
                          Span_new(attr_start, q.pos),
                          Span_new(p2 + 1, q.pos - 1)))))
         ELSE Bind(SfcLexer_read_unquoted_value(source, p2), LAMBDA value_end :
              SfcParser_parse_attributes_loop(source, value_end,
                  Append(attrs,
                      BlockAttr_with_value(Unwrap(n.name),
                          Slice(source, p2, value_end),
                          Span_new(attr_start, value_end),
                          Span_new(p2, value_end))))))
    ELSE SfcParser_parse_attributes_loop(source, p1,
             Append(attrs,
                 BlockAttr_boolean(Unwrap(n.name), Span_new(attr_start, p1)))))))

SfcParser_parse_attributes(source, pos) ==
    SfcParser_parse_attributes_loop(source, pos, <<>>)

\* parse_block's match with every template, script and script-setup block
\* stored over the one already there.
SfcParser_store_block_last(sfc, errors, tag_name, block) ==
    [errors |-> errors,
     sfc |->
        IF tag_name = Str_template
        THEN [sfc EXCEPT !.template =
                 Some([block |-> block,
                       lang |-> get_attr_value(block.attrs, Str_lang),
                       functional |-> has_attr(block.attrs, Str_functional),
                       src |-> get_src_attr(block.attrs)])]
        ELSE IF tag_name = Str_script /\ has_attr(block.attrs, Str_setup)
        THEN [sfc EXCEPT !.script_setup =
                 Some([block |-> block,
                       lang |-> get_attr_value(block.attrs, Str_lang),
                       generic |-> get_attr_value(block.attrs, Str_generic),
                       generic_span |->
                           get_attr_value_span(block.attrs, Str_generic)])]
        ELSE IF tag_name = Str_script
        THEN [sfc EXCEPT !.script =
                 Some([block |-> block,
                       lang |-> get_attr_value(block.attrs, Str_lang),
                       src |-> get_src_attr(block.attrs)])]
        ELSE IF tag_name = Str_style
        THEN [sfc EXCEPT !.styles = Append(@,
                 [block |-> block,
                  lang |-> get_attr_value(block.attrs, Str_lang),
                  scoped |-> has_attr(block.attrs, Str_scoped),
                  module |-> IF has_attr(block.attrs, Str_module)
                             THEN IF IsSome(get_attr_value(block.attrs, Str_module))
                                  THEN get_attr_value(block.attrs, Str_module)
                                  ELSE Some(Str_dollar_style)
                             ELSE None,
                  src |-> get_src_attr(block.attrs)])]
        ELSE [sfc EXCEPT !.custom_blocks =
                 Append(@, [block |-> block, block_type |-> tag_name])]]

\* The `match tag_name` of parse_block: where a parsed block goes.
SfcParser_store_block(sfc, errors, tag_name, block) ==
    LET attrs == block.attrs
        span == block.span
        lang == get_attr_value(attrs, Str_lang)
        src == get_src_attr(attrs)
    IN  IF tag_name = Str_template
        THEN IF IsSome(sfc.template)
             THEN [sfc |-> sfc,
                   errors |-> Append(errors,
                       ParseError_duplicate_block("template", span))]
             ELSE [sfc |-> [sfc EXCEPT !.template =
                       Some([block |-> block, lang |-> lang,
                             functional |-> has_attr(attrs, Str_functional),
                             src |-> src])],
                   errors |-> errors]
        ELSE IF tag_name = Str_script
        THEN IF has_attr(attrs, Str_setup)
             THEN IF IsSome(sfc.script_setup)
                  THEN [sfc |-> sfc,
                        errors |-> Append(errors,
                            ParseError_duplicate_block("script setup", span))]
                  ELSE [sfc |-> [sfc EXCEPT !.script_setup =
                            Some([block |-> block, lang |-> lang,
                                  generic |-> get_attr_value(attrs, Str_generic),
                                  generic_span |->
                                      get_attr_value_span(attrs, Str_generic)])],
                        errors |-> errors]
             ELSE IF IsSome(sfc.script)
                  THEN [sfc |-> sfc,
                        errors |-> Append(errors,
                            ParseError_duplicate_block("script", span))]
                  ELSE [sfc |-> [sfc EXCEPT !.script =
                            Some([block |-> block, lang |-> lang, src |-> src])],
                        errors |-> errors]
        ELSE IF tag_name = Str_style
        THEN [sfc |-> [sfc EXCEPT !.styles = Append(@,
                  [block |-> block, lang |-> lang,
                   scoped |-> has_attr(attrs, Str_scoped),
                   module |-> IF has_attr(attrs, Str_module)
                              THEN IF IsSome(get_attr_value(attrs, Str_module))
                                   THEN get_attr_value(attrs, Str_module)
                                   ELSE Some(Str_dollar_style)
                              ELSE None,
                   src |-> src])],
              errors |-> errors]
        ELSE [sfc |-> [sfc EXCEPT !.custom_blocks = Append(@,
                  [block |-> block, block_type |-> tag_name])],
              errors |-> errors]

\* The end of parse_block for a block that is not self-closing: the closing
\* tag is consumed when the lowercased remaining text starts with it.
SfcParser_consume_closing_tag(source, pos, tag_name) ==
    Bind(SfcLexer_skip_whitespace(source, pos), LAMBDA p2 :
    IF StartsWithAt(to_lowercase(SfcLexer_remaining(source, p2)), 0,
                    <<"<", "/">> \o tag_name)
    THEN Bind(SfcLexer_consume(source, p2, <<"<", "/">> \o tag_name), LAMBDA p3 :
         SfcLexer_consume(source,
             IF ~SfcLexer_starts_with(source, p3, <<">">>)
             THEN SfcLexer_consume_until(source, p3, <<">">>)
             ELSE p3,
             <<">">>))
    ELSE p2)

\* parse_block, entered with the cursor at a `<` that does not open `</`.
SfcParser_parse_block(source, start, sfc, errors) ==
    Bind(SfcLexer_read_tag_name(source,
             SfcLexer_skip_whitespace(source,
                 SfcLexer_consume(source, start, <<"<">>))), LAMBDA t :
    IF t.name = None
    THEN [pos |-> t.pos, sfc |-> sfc, errors |-> errors, panicked |-> FALSE]
    ELSE
    Bind(to_lowercase(Unwrap(t.name)), LAMBDA tag_name :
    Bind(SfcParser_parse_attributes(source, t.pos), LAMBDA a :
    Bind(SfcLexer_skip_whitespace(source, a.pos), LAMBDA p1 :
    IF SfcLexer_starts_with(source, p1, <<"/", ">">>)
    THEN \* self-closing: no content, no closing tag
         Bind(SfcParser_store_block(sfc, errors, tag_name,
                  [span |-> Span_new(start, p1 + 2),
                   content_span |-> Span_empty(p1 + 2),
                   content |-> <<>>,
                   attrs |-> a.attrs]), LAMBDA stored :
         [pos |-> p1 + 2, sfc |-> stored.sfc, errors |-> stored.errors,
          panicked |-> FALSE])
    ELSE
    Bind(SfcLexer_consume(source, p1, <<">">>), LAMBDA tag_end :
    Bind(SfcLexer_read_block_content(source, tag_end, tag_name), LAMBDA c :
    IF c.panicked
    THEN [pos |-> c.pos, sfc |-> sfc, errors |-> errors, panicked |-> TRUE]
    ELSE
    Bind(SfcParser_consume_closing_tag(source, c.pos, tag_name), LAMBDA end :
    Bind(SfcParser_store_block(sfc, errors, tag_name,
             [span |-> Span_new(start, end),
              content_span |-> Span_new(tag_end, c.pos),
              content |-> Slice(source, tag_end, c.pos),
              attrs |-> a.attrs]), LAMBDA stored :
    [pos |-> end, sfc |-> stored.sfc, errors |-> stored.errors,
     panicked |-> FALSE]))))))))

\* The `while !self.lexer.is_eof()` loop of SfcParser::parse.  The errors
\* the parser collected are dropped: parse returns Ok(sfc).
RECURSIVE SfcParser_parse_loop(_, _, _, _)
SfcParser_parse_loop(source, pos0, sfc, errors) ==
    IF SfcLexer_is_eof(source, pos0)
    THEN [kind |-> "ok", sfc |-> sfc, errors |-> errors]
    ELSE
    Bind(SfcLexer_skip_whitespace(source, pos0), LAMBDA p :
    IF SfcLexer_is_eof(source, p)
    THEN [kind |-> "ok", sfc |-> sfc, errors |-> errors]
    ELSE IF SfcLexer_starts_with(source, p, <<"<", "!", "-", "-">>)
    THEN Bind(Unwrap(SfcLexer_read_comment(source, p)), LAMBDA c :
         SfcParser_parse_loop(source, c.pos,
             [sfc EXCEPT !.comments = Append(@,
                 [content |-> c.content, span |-> Span_new(p, c.pos)])],
             errors))
    ELSE IF /\ SfcLexer_starts_with(source, p, <<"<">>)
            /\ ~SfcLexer_starts_with(source, p, <<"<", "/">>)
    THEN Bind(SfcParser_parse_block(source, p, sfc, errors), LAMBDA b :
         IF b.panicked
         THEN [kind |-> "panic", sfc |-> b.sfc, errors |-> b.errors]
         ELSE SfcParser_parse_loop(source, b.pos, b.sfc, b.errors))
    ELSE SfcParser_parse_loop(source, SfcLexer_next_char(source, p),
                              sfc, errors))

\* parse_sfc(source): kind "ok" is Ok(sfc), kind "panic" a panic of the
\* thread; `errors` is the parser's private list, which the caller never
\* receives.
parse_sfc(source) == SfcParser_parse_loop(source, 0, Sfc_new(source), <<>>)

(***************************************************************************)
(* crates/vue-template-compiler: the template tree                         *)
(***************************************************************************)
Expression_new(content, span) ==
    [content |-> content, span |-> span, is_static |-> FALSE]

Expression_static_expr(content, span) ==
    [content |-> content, span |-> span, is_static |-> TRUE]

CompileError_new(message, span, code) ==
    [message |-> message, span |-> span, code |-> code]

BuiltinElements ==
    {<<"t", "e", "m", "p", "l", "a", "t", "e">>, <<"s", "l", "o", "t">>, <<"c", "o", "m", "p", "o", "n", "e", "n", "t">>, <<"k", "e", "e", "p", "-", "a", "l", "i", "v", "e">>, <<"t", "r", "a", "n", "s", "i", "t", "i", "o", "n">>,
     <<"t", "r", "a", "n", "s", "i", "t", "i", "o", "n", "-", "g", "r", "o", "u", "p">>, <<"t", "e", "l", "e", "p", "o", "r", "t">>, <<"s", "u", "s", "p", "e", "n", "s", "e">>}

get_element_type(tag) ==
    IF tag \in BuiltinElements THEN "Builtin"
    ELSE IF (Len(tag) > 0 /\ is_uppercase(tag[1])) \/ StrContains(tag, <<"-">>)
         THEN "Component"
    ELSE "Element"

VoidElements ==
    {<<"a", "r", "e", "a">>, <<"b", "a", "s", "e">>, <<"b", "r">>, <<"c", "o", "l">>, <<"e", "m", "b", "e", "d">>, <<"h", "r">>, <<"i", "m", "g">>, <<"i", "n", "p", "u", "t">>, <<"l", "i", "n", "k">>,
     <<"m", "e", "t", "a">>, <<"p", "a", "r", "a", "m">>, <<"s", "o", "u", "r", "c", "e">>, <<"t", "r", "a", "c", "k">>, <<"w", "b", "r">>}

is_void_element(tag) == to_lowercase(tag) \in VoidElements

\* str::strip_prefix
StripPrefix(s, prefix) ==
    IF StartsWithAt(s, 0, prefix) THEN Some(Slice(s, Len(prefix), Len(s))) ELSE None

\* s.starts_with('[') && s.ends_with(']')
IsBracketed(s) == Len(s) > 0 /\ s[1] = "[" /\ s[Len(s)] = "]"

parse_prop_name(name) ==
    IF IsBracketed(name)
    THEN [name |-> Slice(name, 1, Len(name) - 1), is_dynamic |-> TRUE]
    ELSE [name |-> StrSplit(name, {"."})[1], is_dynamic |-> FALSE]

parse_event_with_modifiers(name) ==
    LET parts == StrSplit(name, {"."})
    IN  IF Len(parts) > 1
        THEN [name |-> parts[1], modifiers |-> Tail(parts)]
        ELSE [name |-> name, modifiers |-> <<>>]

(***************************************************************************)
(* crates/vue-template-compiler: TemplateParser.  The parser is its source *)
(* and a byte cursor; each operation is given both and returns the cursor  *)
(* with its result.                                                        *)
(***************************************************************************)
TemplateParser_is_eof(source, pos) == pos >= Len(source)

TemplateParser_peek(source, pos) ==
    IF pos < Len(source) THEN Some(source[pos + 1]) ELSE None

TemplateParser_advance(source, pos) ==
    IF pos < Len(source) THEN pos + CharLen(source[pos + 1]) ELSE pos

TemplateParser_starts_with(source, pos, s) == StartsWithAt(source, pos, s)

TemplateParser_consume(source, pos, s) ==
    IF TemplateParser_starts_with(source, pos, s) THEN pos + Len(s) ELSE pos

\* read_while(pred), pred given as the set of characters it accepts.
RECURSIVE TemplateParser_read_while(_, _, _)
TemplateParser_read_while(source, pos, pred) ==
    IF pos < Len(source) /\ source[pos + 1] \in pred
    THEN TemplateParser_read_while(source, TemplateParser_advance(source, pos), pred)
    ELSE pos

TemplateParser_skip_whitespace(source, pos) ==
    TemplateParser_read_while(source, pos, Whitespace)

RECURSIVE TemplateParser_read_until(_, _, _)
TemplateParser_read_until(source, pos, s) ==
    IF ~TemplateParser_is_eof(source, pos) /\ ~TemplateParser_starts_with(source, pos, s)
    THEN TemplateParser_read_until(source, TemplateParser_advance(source, pos), s)
    ELSE pos

TemplateParser_parse_comment(source, start) ==
    Bind(TemplateParser_read_until(source,
             TemplateParser_consume(source, start, <<"<", "!", "-", "-">>), <<"-", "-", ">">>), LAMBDA content_end :
    Bind(TemplateParser_consume(source, content_end, <<"-", "-", ">">>), LAMBDA end :
    [pos |-> end,
     node |-> [type |-> "Comment",
               content |-> Slice(source, start + 4, content_end),
               span |-> Span_new(start, end)]]))

\* The expression's content is trimmed; its span is the untrimmed text
\* between the braces.
TemplateParser_parse_interpolation(source, start) ==
    Bind(TemplateParser_consume(source, start, <<"{", "{">>), LAMBDA expr_start :
    Bind(TemplateParser_read_until(source, expr_start, <<"}", "}">>), LAMBDA expr_end :
    Bind(TemplateParser_consume(source, expr_end, <<"}", "}">>), LAMBDA end :
    [pos |-> end,
     node |-> [type |-> "Interpolation",
               expression |-> Expression_new(
                   StrTrim(Slice(source, expr_start, expr_end)),
                   Span_new(expr_start, expr_end)),
               span |-> Span_new(start, end)]])))

RECURSIVE TemplateParser_parse_text_loop(_, _)
TemplateParser_parse_text_loop(source, pos) ==
    IF /\ ~TemplateParser_is_eof(source, pos)
       /\ ~TemplateParser_starts_with(source, pos, <<"<">>)
       /\ ~TemplateParser_starts_with(source, pos, <<"{", "{">>)
    THEN TemplateParser_parse_text_loop(source, TemplateParser_advance(source, pos))
    ELSE pos

TemplateParser_parse_text(source, start) ==
    Bind(TemplateParser_parse_text_loop(source, start), LAMBDA end :
    [pos |-> end,
     node |-> [type |-> "Text", content |-> Slice(source, start, end),
               span |-> Span_new(start, end)]])

\* The `while !self.is_eof()` loop of a quoted attribute value.
RECURSIVE TemplateParser_quoted_value_loop(_, _, _)
TemplateParser_quoted_value_loop(source, pos, quote) ==
    IF ~TemplateParser_is_eof(source, pos) /\ source[pos + 1] # quote
    THEN TemplateParser_quoted_value_loop(source,
             TemplateParser_advance(source, pos), quote)
    ELSE pos

\* parse_attribute_value: the value with its span, and the cursor after.
TemplateParser_parse_attribute_value(source, start) ==
    IF \/ TemplateParser_starts_with(source, start, <<"\"">>)
       \/ TemplateParser_starts_with(source, start, <<"'">>)
    THEN Bind(TemplateParser_quoted_value_loop(source, start + 1, source[start + 1]),
              LAMBDA value_end :
              [value |-> [content |-> Slice(source, start + 1, value_end),
                          span |-> Span_new(start + 1, value_end)],
               pos |-> TemplateParser_advance(source, value_end)])
    ELSE Bind(TemplateParser_read_while(source, start,
                  Chars \ (Whitespace \cup {">", "/"})), LAMBDA end :
              [value |-> [content |-> Slice(source, start, end),
                          span |-> Span_new(start, end)],
               pos |-> end])

\* Option<(String, Span)> to Option<Expression>
ValueExpression(value) ==
    IF IsSome(value)
    THEN Some(Expression_new(Unwrap(value).content, Unwrap(value).span))
    ELSE None

DirectiveArg(arg_str, span) ==
    IF IsBracketed(arg_str)
    THEN [kind |-> "Dynamic",
          expr |-> Expression_new(Slice(arg_str, 1, Len(arg_str) - 1), span)]
    ELSE [kind |-> "Static", name |-> arg_str, span |-> span]

\* parse_directive: name:arg.mod1.mod2
TemplateParser_parse_directive(name_with_mods, value, span) ==
    Bind(StrSplit(name_with_mods, {"."}), LAMBDA parts :
    Bind(StrFind(parts[1], <<":">>), LAMBDA colon_pos :
    [name |-> IF IsSome(colon_pos)
              THEN Slice(parts[1], 0, Unwrap(colon_pos))
              ELSE parts[1],
     arg |-> IF IsSome(colon_pos)
             THEN Some(DirectiveArg(
                      Slice(parts[1], Unwrap(colon_pos) + 1, Len(parts[1])), span))
             ELSE None,
     modifiers |-> Tail(parts),
     value |-> ValueExpression(value),
     span |-> span]))

TplAttrNameChars ==
    AsciiLower \cup AsciiUpper \cup AsciiDigit
        \cup {"-", "_", ":", ".", "@", "#", "[", "]"}

TplTagNameChars ==
    AsciiLower \cup AsciiUpper \cup AsciiDigit \cup {"-", "_", ":"}

\* The `Parse based on prefix` chain of parse_attributes: the four vectors
\* after one attribute `name`, with `value` and `span`, has been classified.
TemplateParser_classify_attribute(acc, name, value, span) ==
    IF IsSome(StripPrefix(name, <<"v", "-">>))
    THEN [acc EXCEPT !.directives = Append(@,
             TemplateParser_parse_directive(
                 Unwrap(StripPrefix(name, <<"v", "-">>)), value, span))]
    ELSE IF IsSome(StripPrefix(name, <<":">>)) \/ IsSome(StripPrefix(name, <<"v", "-", "b", "i", "n", "d", ":">>))
    THEN Bind(parse_prop_name(
                  IF IsSome(StripPrefix(name, <<":">>))
                  THEN Unwrap(StripPrefix(name, <<":">>))
                  ELSE Unwrap(StripPrefix(name, <<"v", "-", "b", "i", "n", "d", ":">>))), LAMBDA pn :
         IF IsSome(value)
         THEN [acc EXCEPT !.props = Append(@,
                  [name |-> pn.name,
                   value |-> Unwrap(ValueExpression(value)),
                   is_dynamic |-> pn.is_dynamic,
                   span |-> span])]
         ELSE acc)
    ELSE IF IsSome(StripPrefix(name, <<"@">>)) \/ IsSome(StripPrefix(name, <<"v", "-", "o", "n", ":">>))
    THEN Bind(parse_event_with_modifiers(
                  IF IsSome(StripPrefix(name, <<"@">>))
                  THEN Unwrap(StripPrefix(name, <<"@">>))
                  ELSE Unwrap(StripPrefix(name, <<"v", "-", "o", "n", ":">>))), LAMBDA ev :
         IF IsSome(value)
         THEN [acc EXCEPT !.events = Append(@,
                  [name |-> IF IsBracketed(ev.name)
                            THEN Slice(ev.name, 1, Len(ev.name) - 1)
                            ELSE ev.name,
                   handler |-> Unwrap(ValueExpression(value)),
                   is_dynamic |-> IsBracketed(ev.name),
                   modifiers |-> ev.modifiers,
                   span |-> span])]
         ELSE acc)
    ELSE IF IsSome(StripPrefix(name, <<"#">>))
    THEN [acc EXCEPT !.directives = Append(@,
             [name |-> <<"s", "l", "o", "t">>,
              arg |-> Some(DirectiveArg(Unwrap(StripPrefix(name, <<"#">>)), span)),
              modifiers |-> <<>>,
              value |-> ValueExpression(value),
              span |-> span])]
    ELSE [acc EXCEPT !.attrs = Append(@,
             [name |-> name,
              value |-> IF IsSome(value) THEN Some(Unwrap(value).content) ELSE None,
              span |-> span,
              value_span |-> IF IsSome(value) THEN Some(Unwrap(value).span) ELSE None])]

\* The loop of parse_attributes: acc is (attrs, directives, props, events).
RECURSIVE TemplateParser_parse_attributes_loop(_, _, _)
TemplateParser_parse_attributes_loop(source, pos0, acc) ==
    Bind(TemplateParser_skip_whitespace(source, pos0), LAMBDA attr_start :
    IF \/ TemplateParser_is_eof(source, attr_start)
       \/ TemplateParser_starts_with(source, attr_start, <<">">>)
       \/ TemplateParser_starts_with(source, attr_start, <<"/", ">">>)
    THEN [acc |-> acc, pos |-> attr_start]
    ELSE
    Bind(TemplateParser_read_while(source, attr_start, TplAttrNameChars), LAMBDA name_end :
    IF name_end = attr_start
    THEN TemplateParser_parse_attributes_loop(source,
             TemplateParser_advance(source, attr_start), acc)
    ELSE
    Bind(TemplateParser_skip_whitespace(source, name_end), LAMBDA p1 :
    IF TemplateParser_starts_with(source, p1, <<"=">>)
    THEN Bind(TemplateParser_parse_attribute_value(source,
                  TemplateParser_skip_whitespace(source, p1 + 1)), LAMBDA v :
         TemplateParser_parse_attributes_loop(source, v.pos,
             TemplateParser_classify_attribute(acc,
                 Slice(source, attr_start, name_end), Some(v.value),
                 Span_new(attr_start, v.pos))))
    ELSE TemplateParser_parse_attributes_loop(source, p1,
             TemplateParser_classify_attribute(acc,
                 Slice(source, attr_start, name_end), None,
                 Span_new(attr_start, p1))))))

TemplateParser_parse_attributes(source, pos) ==
    TemplateParser_parse_attributes_loop(source, pos,
        [attrs |-> <<>>, directives |-> <<>>, props |-> <<>>, events |-> <<>>])

ForAlias(pattern, span) == [pattern |-> pattern, span |-> span]

\* parse_v_for_expression: kind "ok" with the ForNode, or kind "err".
TemplateParser_parse_v_for_expression(raw, span) ==
    Bind(StrTrim(raw), LAMBDA expr :
    Bind(IF IsSome(StrFind(expr, <<" ", "i", "n", " ">>)) THEN StrFind(expr, <<" ", "i", "n", " ">>)
         ELSE StrFind(expr, <<" ", "o", "f", " ">>), LAMBDA split_pos :
    IF split_pos = None
    THEN [kind |-> "err",
          error |-> CompileError_new("Invalid v-for expression", span, "InvalidVFor")]
    ELSE
    Bind(StrTrim(Slice(expr, 0, Unwrap(split_pos))), LAMBDA alias_part :
    Bind(StrTrim(Slice(expr, Unwrap(split_pos) + 4, Len(expr))), LAMBDA source_part :
    Bind(IF Len(alias_part) > 0 /\ alias_part[1] = "("
            /\ alias_part[Len(alias_part)] = ")"
         THEN Bind(StrSplit(Slice(alias_part, 1, Len(alias_part) - 1), {","}),
                   LAMBDA parts : [i \in 1..Len(parts) |-> StrTrim(parts[i])])
         ELSE <<alias_part>>, LAMBDA aliases :
    IF Len(aliases) > 3
    THEN [kind |-> "err",
          error |-> CompileError_new("Invalid v-for aliases", span, "InvalidVFor")]
    ELSE [kind |-> "ok",
          node |-> [type |-> "For",
                    source |-> Expression_new(source_part, span),
                    value |-> ForAlias(aliases[1], span),
                    key |-> IF Len(aliases) >= 2
                            THEN Some(ForAlias(aliases[2], span)) ELSE None,
                    index |-> IF Len(aliases) >= 3
                              THEN Some(ForAlias(aliases[3], span)) ELSE None,
                    children |-> <<>>,
                    key_attr |-> None,
                    span |-> span]])))))

TemplateParser_create_element_node(tag, tag_span, attrs, directives, props, events, children, self_closing, span) ==
    [type |-> "Element",
     tag |-> tag,
     is_component |-> get_element_type(tag) = "Component",
     attrs |-> attrs,
     directives |-> directives,
     props |-> props,
     events |-> events,
     children |-> children,
     slots |-> <<>>,
     self_closing |-> self_closing,
     span |-> span,
     tag_span |-> tag_span]

\* iter().find(|x| x.name == name)
FindNamed(items, name) ==
    LET hits == {i \in 1..Len(items) : items[i].name = name}
    IN  IF hits = {} THEN None ELSE Some(items[SetMin(hits)])

\* The filter that lets every item through.
WithoutNone(items, names) == items

\* into_iter().filter(|x| !names.contains(x.name)).collect()
RECURSIVE WithoutNamed(_, _)
WithoutNamed(items, names) ==
    IF items = <<>> THEN <<>>
    ELSE IF Head(items).name \in names
         THEN WithoutNamed(Tail(items), names)
         ELSE <<Head(items)>> \o WithoutNamed(Tail(items), names)

\* The end of parse_element, from `Check for structural directives` on:
\* the node the element becomes, or the error of its v-for clause.
TemplateParser_finish_element(tag, tag_span, a, children, self_closing, span) ==
    Bind(FindNamed(a.directives, <<"f", "o", "r">>), LAMBDA v_for :
    IF IsSome(v_for) /\ IsSome(Unwrap(v_for).value)
    THEN Bind(TemplateParser_parse_v_for_expression(
                  Unwrap(Unwrap(v_for).value).content,
                  Unwrap(Unwrap(v_for).value).span), LAMBDA f :
         IF f.kind = "err" THEN f
         ELSE [kind |-> "ok",
               node |-> [f.node EXCEPT
                   !.children = <<TemplateParser_create_element_node(
                       tag, tag_span, a.attrs,
                       WithoutNamed(a.directives, {<<"f", "o", "r">>}),
                       a.props, a.events, children, self_closing, span)>>,
                   !.span = span,
                   !.key_attr = IF IsSome(FindNamed(a.props, <<"k", "e", "y">>))
                                THEN Some(Unwrap(FindNamed(a.props, <<"k", "e", "y">>)).value)
                                ELSE None]])
    ELSE
    Bind(FindNamed(a.directives, <<"i", "f">>), LAMBDA v_if :
    Bind(FindNamed(a.directives, <<"e", "l", "s", "e", "-", "i", "f">>), LAMBDA v_else_if :
    Bind(FindNamed(a.directives, <<"e", "l", "s", "e">>), LAMBDA v_else :
    IF IsSome(v_if) \/ IsSome(v_else_if) \/ IsSome(v_else)
    THEN [kind |-> "ok",
          node |-> [type |-> "If",
                    branches |-> <<[
                        condition |-> IF IsSome(v_if) THEN Unwrap(v_if).value
                                      ELSE IF IsSome(v_else_if)
                                           THEN Unwrap(v_else_if).value
                                      ELSE None,
                        branch_type |-> IF IsSome(v_if) THEN "If"
                                        ELSE IF IsSome(v_else_if) THEN "ElseIf"
                                        ELSE "Else",
                        children |-> <<TemplateParser_create_element_node(
                            tag, tag_span, a.attrs,
                            WithoutNamed(a.directives, {<<"i", "f">>, <<"e", "l", "s", "e", "-", "i", "f">>, <<"e", "l", "s", "e">>}),
                            a.props, a.events, children, self_closing, span)>>,
                        span |-> span]>>,
                    span |-> span]]
    ELSE IF tag = <<"s", "l", "o", "t">>
    THEN [kind |-> "ok",
          node |-> [type |-> "SlotOutlet",
                    name |-> IF IsSome(FindNamed(a.props, <<"n", "a", "m", "e">>))
                             THEN Unwrap(FindNamed(a.props, <<"n", "a", "m", "e">>)).value
                             ELSE Expression_static_expr(<<"d", "e", "f", "a", "u", "l", "t">>, span),
                    props |-> WithoutNamed(a.props, {<<"n", "a", "m", "e">>}),
                    fallback |-> children,
                    span |-> span]]
    ELSE IF tag = <<"t", "e", "m", "p", "l", "a", "t", "e">> /\ IsSome(FindNamed(a.directives, <<"s", "l", "o", "t">>))
    THEN [kind |-> "ok",
          node |-> [type |-> "Template",
                    directives |-> a.directives,
                    children |-> children,
                    span |-> span]]
    ELSE [kind |-> "ok",
          node |-> TemplateParser_create_element_node(
                       tag, tag_span, a.attrs, a.directives, a.props, a.events,
                       children, self_closing, span)]))))

\* `Consume closing tag` of parse_element.
TemplateParser_consume_closing_tag(source, pos) ==
    Bind(TemplateParser_skip_whitespace(source, pos), LAMBDA p :
    IF TemplateParser_starts_with(source, p, <<"<", "/">>)
    THEN TemplateParser_consume(source,
             TemplateParser_skip_whitespace(source,
                 TemplateParser_read_while(source,
                     TemplateParser_skip_whitespace(source, p + 2),
                     TplTagNameChars)),
             <<">">>)
    ELSE p)

\* The end-tag test at the top of the parse_children loop:
\* remaining[2..].split(whitespace or '>').next() equals the tag, ignoring case.
IsEndTagOf(source, pos, end_tag) ==
    /\ IsSome(end_tag)
    /\ TemplateParser_starts_with(source, pos, <<"<", "/">>)
    /\ eq_ignore_ascii_case(
           StrSplitFirst(Slice(source, pos + 2, Len(source)),
                         Whitespace \cup {">"}),
           Unwrap(end_tag))

\* parse_children, parse_node and parse_element.  Each returns
\*   kind "ok"   with the cursor and what was parsed,
\*   kind "err"  with the CompileError that `?` hands to the caller, or
\*   kind "hang" when an iteration of the parse_children loop ends in the
\*               state it began in: the cursor has not moved, nothing was
\*               pushed, and the loop was not left, so it repeats for ever.
RECURSIVE TemplateParser_parse_children_loop(_, _, _, _)
RECURSIVE TemplateParser_parse_node(_, _)
RECURSIVE TemplateParser_parse_element(_, _)

TemplateParser_parse_children_loop(source, pos, end_tag, children) ==
    IF TemplateParser_is_eof(source, pos)
    THEN [kind |-> "ok", pos |-> pos, children |-> children]
    ELSE IF IsEndTagOf(source, pos, end_tag)
    THEN [kind |-> "ok", pos |-> pos, children |-> children]
    ELSE Bind(TemplateParser_parse_node(source, pos), LAMBDA r :
         IF r.kind # "ok" THEN r
         ELSE IF r.node = None
         THEN [kind |-> "hang", pos |-> pos, end_tag |-> end_tag]
         ELSE TemplateParser_parse_children_loop(source, r.pos, end_tag,
                  Append(children, Unwrap(r.node))))

TemplateParser_parse_children(source, pos, end_tag) ==
    TemplateParser_parse_children_loop(source, pos, end_tag, <<>>)

TemplateParser_parse_node(source, pos) ==
    IF TemplateParser_starts_with(source, pos, <<"<", "!", "-", "-">>)
    THEN Bind(TemplateParser_parse_comment(source, pos), LAMBDA c :
         [kind |-> "ok", pos |-> c.pos, node |-> Some(c.node)])
    ELSE IF TemplateParser_starts_with(source, pos, <<"<", "/">>)
    THEN [kind |-> "ok", pos |-> pos, node |-> None]
    ELSE IF TemplateParser_starts_with(source, pos, <<"<">>)
    THEN Bind(TemplateParser_parse_element(source, pos), LAMBDA e :
         IF e.kind # "ok" THEN e
         ELSE [kind |-> "ok", pos |-> e.pos, node |-> Some(e.node)])
    ELSE IF TemplateParser_starts_with(source, pos, <<"{", "{">>)
    THEN Bind(TemplateParser_parse_interpolation(source, pos), LAMBDA i :
         [kind |-> "ok", pos |-> i.pos, node |-> Some(i.node)])
    ELSE Bind(TemplateParser_parse_text(source, pos), LAMBDA t :
         [kind |-> "ok", pos |-> t.pos, node |-> Some(t.node)])

TemplateParser_parse_element(source, start) ==
    Bind(TemplateParser_skip_whitespace(source,
             TemplateParser_consume(source, start, <<"<">>)), LAMBDA tag_start :
    Bind(TemplateParser_read_while(source, tag_start, TplTagNameChars), LAMBDA tag_end :
    IF tag_end = tag_start
    THEN [kind |-> "err",
          error |-> CompileError_new("Expected tag name",
                        Span_new(start, tag_end), "UnexpectedToken")]
    ELSE
    Bind(Slice(source, tag_start, tag_end), LAMBDA tag :
    Bind(TemplateParser_parse_attributes(source, tag_end), LAMBDA a :
    Bind(TemplateParser_skip_whitespace(source, a.pos), LAMBDA p1 :
    IF TemplateParser_starts_with(source, p1, <<"/", ">">>) \/ is_void_element(tag)
    THEN \* self-closing or void: no children, no closing tag
         Bind(IF TemplateParser_starts_with(source, p1, <<"/", ">">>) THEN p1 + 2
              ELSE TemplateParser_consume(source, p1, <<">">>), LAMBDA end :
         Bind(TemplateParser_finish_element(tag, Span_new(tag_start, tag_end),
                  a.acc, <<>>, TemplateParser_starts_with(source, p1, <<"/", ">">>),
                  Span_new(start, end)), LAMBDA f :
         IF f.kind # "ok" THEN f
         ELSE [kind |-> "ok", pos |-> end, node |-> f.node]))
    ELSE
    Bind(TemplateParser_parse_children(source,
             TemplateParser_consume(source, p1, <<">">>), Some(tag)), LAMBDA c :
    IF c.kind # "ok" THEN c
    ELSE
    Bind(TemplateParser_consume_closing_tag(source, c.pos), LAMBDA end :
    Bind(TemplateParser_finish_element(tag, Span_new(tag_start, tag_end),
             a.acc, c.children, FALSE, Span_new(start, end)), LAMBDA f :
    IF f.kind # "ok" THEN f
    ELSE [kind |-> "ok", pos |-> end, node |-> f.node]))))))))

\* parse_template(source): Ok(TemplateAst), Err(CompileError), or no return.
parse_template(source) ==
    Bind(TemplateParser_parse_children(source, 0, None), LAMBDA c :
    IF c.kind # "ok" THEN c
    ELSE [kind |-> "ok",
          ast |-> [children |-> c.children, span |-> Span_new(0, Len(source))]])

(***************************************************************************)
(* crates/vue-codegen: CodegenContext                                      *)
(***************************************************************************)
MacroInfo_default ==
    [define_props |-> None, define_emits |-> None, define_slots |-> None,
     define_models |-> <<>>, define_expose |-> None, exposed |-> <<>>]

CodegenContext_new ==
    [lang |-> "Ts", generics |-> None, macros |-> MacroInfo_default,
     scope_vars |-> <<>>, components |-> {}, errors |-> <<>>, counter |-> 0]

\* u32 to its decimal text, as format!("{}", n) writes it.
RECURSIVE ToDecimal(_)
ToDecimal(n) ==
    LET digits == <<"0", "1", "2", "3", "4", "5", "6", "7", "8", "9">>
    IN  IF n < 10 THEN <<digits[n + 1]>>
        ELSE ToDecimal(n \div 10) \o <<digits[(n % 10) + 1]>>

\* unique_id(prefix): the context with its counter advanced, and the id.
CodegenContext_unique_id(ctx, prefix) ==
    [ctx |-> [ctx EXCEPT !.counter = @ + 1],
     id |-> prefix \o ToDecimal(ctx.counter + 1)]

CodegenContext_add_var(ctx, name, source) ==
    [ctx EXCEPT !.scope_vars = Append(@, [name |-> name, source |-> source])]

CodegenContext_has_var(ctx, name) ==
    \E i \in 1..Len(ctx.scope_vars) : ctx.scope_vars[i].name = name

CodegenContext_enter_scope(ctx) == Len(ctx.scope_vars)

\* An exit that truncates nothing.
CodegenContext_exit_scope_keep(ctx, marker) == ctx

\* Vec::truncate(marker)
CodegenContext_exit_scope(ctx, marker) ==
    [ctx EXCEPT !.scope_vars = SubSeq(@, 1, Min(marker, Len(@)))]

CodegenContext_use_component(ctx, name) ==
    [ctx EXCEPT !.components = @ \cup {name}]

(***************************************************************************)
(* crates/vue-codegen: helpers                                             *)
(***************************************************************************)
HTML_TAGS ==
    {<<"a">>, <<"a", "b", "b", "r">>, <<"a", "d", "d", "r", "e", "s", "s">>, <<"a", "r", "e", "a">>, <<"a", "r", "t", "i", "c", "l", "e">>, <<"a", "s", "i", "d", "e">>, <<"a", "u", "d", "i", "o">>, <<"b">>, <<"b", "a", "s", "e">>,
     <<"b", "d", "i">>, <<"b", "d", "o">>, <<"b", "l", "o", "c", "k", "q", "u", "o", "t", "e">>, <<"b", "o", "d", "y">>, <<"b", "r">>, <<"b", "u", "t", "t", "o", "n">>, <<"c", "a", "n", "v", "a", "s">>, <<"c", "a", "p", "t", "i", "o", "n">>,
     <<"c", "i", "t", "e">>, <<"c", "o", "d", "e">>, <<"c", "o", "l">>, <<"c", "o", "l", "g", "r", "o", "u", "p">>, <<"d", "a", "t", "a">>, <<"d", "a", "t", "a", "l", "i", "s", "t">>, <<"d", "d">>, <<"d", "e", "l">>,
     <<"d", "e", "t", "a", "i", "l", "s">>, <<"d", "f", "n">>, <<"d", "i", "a", "l", "o", "g">>, <<"d", "i", "v">>, <<"d", "l">>, <<"d", "t">>, <<"e", "m">>, <<"e", "m", "b", "e", "d">>,
     <<"f", "i", "e", "l", "d", "s", "e", "t">>, <<"f", "i", "g", "c", "a", "p", "t", "i", "o", "n">>, <<"f", "i", "g", "u", "r", "e">>, <<"f", "o", "o", "t", "e", "r">>, <<"f", "o", "r", "m">>, <<"h", "1">>, <<"h", "2">>, <<"h", "3">>,
     <<"h", "4">>, <<"h", "5">>, <<"h", "6">>, <<"h", "e", "a", "d">>, <<"h", "e", "a", "d", "e", "r">>, <<"h", "g", "r", "o", "u", "p">>, <<"h", "r">>, <<"h", "t", "m", "l">>, <<"i">>,
     <<"i", "f", "r", "a", "m", "e">>, <<"i", "m", "g">>, <<"i", "n", "p", "u", "t">>, <<"i", "n", "s">>, <<"k", "b", "d">>, <<"l", "a", "b", "e", "l">>, <<"l", "e", "g", "e", "n", "d">>, <<"l", "i">>, <<"l", "i", "n", "k">>,
     <<"m", "a", "i", "n">>, <<"m", "a", "p">>, <<"m", "a", "r", "k">>, <<"m", "a", "t", "h">>, <<"m", "e", "n", "u">>, <<"m", "e", "t", "a">>, <<"m", "e", "t", "e", "r">>, <<"n", "a", "v">>,
     <<"n", "o", "s", "c", "r", "i", "p", "t">>, <<"o", "b", "j", "e", "c", "t">>, <<"o", "l">>, <<"o", "p", "t", "g", "r", "o", "u", "p">>, <<"o", "p", "t", "i", "o", "n">>, <<"o", "u", "t", "p", "u", "t">>, <<"p">>,
     <<"p", "a", "r", "a", "m">>, <<"p", "i", "c", "t", "u", "r", "e">>, <<"p", "r", "e">>, <<"p", "r", "o", "g", "r", "e", "s", "s">>, <<"q">>, <<"r", "p">>, <<"r", "t">>, <<"r", "u", "b", "y">>, <<"s">>,
     <<"s", "a", "m", "p">>, <<"s", "c", "r", "i", "p", "t">>, <<"s", "e", "a", "r", "c", "h">>, <<"s", "e", "c", "t", "i", "o", "n">>, <<"s", "e", "l", "e", "c", "t">>, <<"s", "l", "o", "t">>, <<"s", "m", "a", "l", "l">>,
     <<"s", "o", "u", "r", "c", "e">>, <<"s", "p", "a", "n">>, <<"s", "t", "r", "o", "n", "g">>, <<"s", "t", "y", "l", "e">>, <<"s", "u", "b">>, <<"s", "u", "m", "m", "a", "r", "y">>, <<"s", "u", "p">>, <<"s", "v", "g">>,
     <<"t", "a", "b", "l", "e">>, <<"t", "b", "o", "d", "y">>, <<"t", "d">>, <<"t", "e", "m", "p", "l", "a", "t", "e">>, <<"t", "e", "x", "t", "a", "r", "e", "a">>, <<"t", "f", "o", "o", "t">>, <<"t", "h">>, <<"t", "h", "e", "a", "d">>,
     <<"t", "i", "m", "e">>, <<"t", "i", "t", "l", "e">>, <<"t", "r">>, <<"t", "r", "a", "c", "k">>, <<"u">>, <<"u", "l">>, <<"v", "a", "r">>, <<"v", "i", "d", "e", "o">>, <<"w", "b", "r">>}

SVG_TAGS ==
    {<<"s", "v", "g">>, <<"a", "n", "i", "m", "a", "t", "e">>, <<"a", "n", "i", "m", "a", "t", "e", "M", "o", "t", "i", "o", "n">>, <<"a", "n", "i", "m", "a", "t", "e", "T", "r", "a", "n", "s", "f", "o", "r", "m">>, <<"c", "i", "r", "c", "l", "e">>,
     <<"c", "l", "i", "p", "P", "a", "t", "h">>, <<"d", "e", "f", "s">>, <<"d", "e", "s", "c">>, <<"e", "l", "l", "i", "p", "s", "e">>, <<"f", "e", "B", "l", "e", "n", "d">>, <<"f", "e", "C", "o", "l", "o", "r", "M", "a", "t", "r", "i", "x">>,
     <<"f", "e", "C", "o", "m", "p", "o", "n", "e", "n", "t", "T", "r", "a", "n", "s", "f", "e", "r">>, <<"f", "e", "C", "o", "m", "p", "o", "s", "i", "t", "e">>, <<"f", "e", "C", "o", "n", "v", "o", "l", "v", "e", "M", "a", "t", "r", "i", "x">>,
     <<"f", "e", "D", "i", "f", "f", "u", "s", "e", "L", "i", "g", "h", "t", "i", "n", "g">>, <<"f", "e", "D", "i", "s", "p", "l", "a", "c", "e", "m", "e", "n", "t", "M", "a", "p">>, <<"f", "e", "D", "i", "s", "t", "a", "n", "t", "L", "i", "g", "h", "t">>,
     <<"f", "e", "D", "r", "o", "p", "S", "h", "a", "d", "o", "w">>, <<"f", "e", "F", "l", "o", "o", "d">>, <<"f", "e", "F", "u", "n", "c", "A">>, <<"f", "e", "F", "u", "n", "c", "B">>, <<"f", "e", "F", "u", "n", "c", "G">>, <<"f", "e", "F", "u", "n", "c", "R">>,
     <<"f", "e", "G", "a", "u", "s", "s", "i", "a", "n", "B", "l", "u", "r">>, <<"f", "e", "I", "m", "a", "g", "e">>, <<"f", "e", "M", "e", "r", "g", "e">>, <<"f", "e", "M", "e", "r", "g", "e", "N", "o", "d", "e">>, <<"f", "e", "M", "o", "r", "p", "h", "o", "l", "o", "g", "y">>,
     <<"f", "e", "O", "f", "f", "s", "e", "t">>, <<"f", "e", "P", "o", "i", "n", "t", "L", "i", "g", "h", "t">>, <<"f", "e", "S", "p", "e", "c", "u", "l", "a", "r", "L", "i", "g", "h", "t", "i", "n", "g">>, <<"f", "e", "S", "p", "o", "t", "L", "i", "g", "h", "t">>,
     <<"f", "e", "T", "i", "l", "e">>, <<"f", "e", "T", "u", "r", "b", "u", "l", "e", "n", "c", "e">>, <<"f", "i", "l", "t", "e", "r">>, <<"f", "o", "r", "e", "i", "g", "n", "O", "b", "j", "e", "c", "t">>, <<"g">>, <<"i", "m", "a", "g", "e">>,
     <<"l", "i", "n", "e">>, <<"l", "i", "n", "e", "a", "r", "G", "r", "a", "d", "i", "e", "n", "t">>, <<"m", "a", "r", "k", "e", "r">>, <<"m", "a", "s", "k">>, <<"m", "e", "t", "a", "d", "a", "t", "a">>, <<"m", "p", "a", "t", "h">>, <<"p", "a", "t", "h">>,
     <<"p", "a", "t", "t", "e", "r", "n">>, <<"p", "o", "l", "y", "g", "o", "n">>, <<"p", "o", "l", "y", "l", "i", "n", "e">>, <<"r", "a", "d", "i", "a", "l", "G", "r", "a", "d", "i", "e", "n", "t">>, <<"r", "e", "c", "t">>, <<"s", "e", "t">>,
     <<"s", "t", "o", "p">>, <<"s", "w", "i", "t", "c", "h">>, <<"s", "y", "m", "b", "o", "l">>, <<"t", "e", "x", "t">>, <<"t", "e", "x", "t", "P", "a", "t", "h">>, <<"t", "s", "p", "a", "n">>, <<"u", "s", "e">>, <<"v", "i", "e", "w">>}

is_html_tag(tag) == to_lowercase(tag) \in HTML_TAGS
is_svg_tag(tag) == to_lowercase(tag) \in SVG_TAGS

\* The unmapped preamble generate_helpers pushes: the import statement and
\* VLS_HELPER_TYPES.  VLS_HELPER_TYPES is a constant text of 130 lines; the
\* model keeps its first two, which shortens the generated file by a
\* constant number of unmapped bytes.
VLS_IMPORTS ==
    <<"i", "m", "p", "o", "r", "t", " ", "{", " ", "d", "e", "f", "i", "n",
      "e", "C", "o", "m", "p", "o", "n", "e", "n", "t", " ", "a", "s", " ",
      "_", "_", "V", "L", "S", "_", "d", "e", "f", "i", "n", "e", "C", "o",
      "m", "p", "o", "n", "e", "n", "t", ",", " ", "r", "e", "f", " ", "a",
      "s", " ", "_", "_", "V", "L", "S", "_", "r", "e", "f", ",", " ", "c",
      "o", "m", "p", "u", "t", "e", "d", " ", "a", "s", " ", "_", "_", "V",
      "L", "S", "_", "c", "o", "m", "p", "u", "t", "e", "d", ",", " ", "r",
      "e", "a", "c", "t", "i", "v", "e", " ", "a", "s", " ", "_", "_", "V",
      "L", "S", "_", "r", "e", "a", "c", "t", "i", "v", "e", ",", " ", "P",
      "r", "o", "p", "T", "y", "p", "e", " ", "a", "s", " ", "_", "_", "V",
      "L", "S", "_", "P", "r", "o", "p", "T", "y", "p", "e", ",", " ", "E",
      "x", "t", "r", "a", "c", "t", "P", "r", "o", "p", "T", "y", "p", "e",
      "s", " ", "a", "s", " ", "_", "_", "V", "L", "S", "_", "E", "x", "t",
      "r", "a", "c", "t", "P", "r", "o", "p", "T", "y", "p", "e", "s", ",",
      " ", "C", "o", "m", "p", "o", "n", "e", "n", "t", "P", "u", "b", "l",
      "i", "c", "I", "n", "s", "t", "a", "n", "c", "e", " ", "a", "s", " ",
      "_", "_", "V", "L", "S", "_", "C", "o", "m", "p", "o", "n", "e", "n",
      "t", "P", "u", "b", "l", "i", "c", "I", "n", "s", "t", "a", "n", "c",
      "e", " ", "}", " ", "f", "r", "o", "m", " ", "'", "v", "u", "e", "'",
      ";", "\n", "\n">>
VLS_HELPER_TYPES == <<"\n", "/", "/", " ", "H", "e", "l", "p", "e", "r", " ", "t", "y", "p", "e", "s", " ", "f", "o", "r", " ", "V", "u", "e", " ", "t", "y", "p", "e", " ", "c", "h", "e", "c", "k", "i", "n", "g", "\n">>

(***************************************************************************)
(* crates/vue-codegen: template.rs.  The generator state g is the          *)
(* CodeBuilder, the CodegenContext, and `emitted`, a history of the        *)
(* generate_expression calls: the expression, the text pushed for it, the  *)
(* builder offset it was pushed at and the names then in scope.            *)
(***************************************************************************)
Emit(g, s) == [g EXCEPT !.builder = CodeBuilder_push_str(@, s)]

\* "  ".repeat(indent)
RECURSIVE Indent(_)
Indent(indent) == IF indent = 0 THEN <<>> ELSE <<" ", " ">> \o Indent(indent - 1)

JsBuiltins ==
    {<<"t", "r", "u", "e">>, <<"f", "a", "l", "s", "e">>, <<"n", "u", "l", "l">>, <<"u", "n", "d", "e", "f", "i", "n", "e", "d">>, <<"N", "a", "N">>, <<"I", "n", "f", "i", "n", "i", "t", "y">>, <<"t", "h", "i", "s">>,
     <<"c", "o", "n", "s", "o", "l", "e">>, <<"w", "i", "n", "d", "o", "w">>, <<"d", "o", "c", "u", "m", "e", "n", "t">>, <<"M", "a", "t", "h">>, <<"J", "S", "O", "N">>, <<"D", "a", "t", "e">>, <<"A", "r", "r", "a", "y">>,
     <<"O", "b", "j", "e", "c", "t">>, <<"S", "t", "r", "i", "n", "g">>, <<"N", "u", "m", "b", "e", "r">>, <<"B", "o", "o", "l", "e", "a", "n">>, <<"S", "y", "m", "b", "o", "l">>, <<"M", "a", "p">>, <<"S", "e", "t">>,
     <<"W", "e", "a", "k", "M", "a", "p">>, <<"W", "e", "a", "k", "S", "e", "t">>, <<"P", "r", "o", "m", "i", "s", "e">>, <<"P", "r", "o", "x", "y">>, <<"R", "e", "f", "l", "e", "c", "t">>, <<"E", "r", "r", "o", "r">>,
     <<"T", "y", "p", "e", "E", "r", "r", "o", "r">>, <<"R", "a", "n", "g", "e", "E", "r", "r", "o", "r">>, <<"p", "a", "r", "s", "e", "I", "n", "t">>, <<"p", "a", "r", "s", "e", "F", "l", "o", "a", "t">>, <<"i", "s", "N", "a", "N">>,
     <<"i", "s", "F", "i", "n", "i", "t", "e">>, <<"e", "n", "c", "o", "d", "e", "U", "R", "I">>, <<"d", "e", "c", "o", "d", "e", "U", "R", "I">>, <<"e", "n", "c", "o", "d", "e", "U", "R", "I", "C", "o", "m", "p", "o", "n", "e", "n", "t">>,
     <<"d", "e", "c", "o", "d", "e", "U", "R", "I", "C", "o", "m", "p", "o", "n", "e", "n", "t">>}

\* A test that knows no builtin.
is_js_builtin_none(name) == FALSE

is_js_builtin(name) == name \in JsBuiltins

is_simple_identifier(s) ==
    /\ Len(s) > 0
    /\ (is_ascii_alphabetic(s[1]) \/ s[1] \in {"_", "$"})
    /\ \A i \in 2..Len(s) :
           s[i] # ContByte
           /\ (is_ascii_alphanumeric(s[i]) \/ s[i] \in {"_", "$"})

wrap_expression_identifiers(raw, ctx) ==
    Bind(StrTrim(raw), LAMBDA expr :
    IF is_simple_identifier(expr)
    THEN IF is_js_builtin(expr) \/ CodegenContext_has_var(ctx, expr)
         THEN expr
         ELSE <<"_", "_", "V", "L", "S", "_", "c", "t", "x", ".">> \o expr
    ELSE expr)

ScopeNames(ctx) == [i \in 1..Len(ctx.scope_vars) |-> ctx.scope_vars[i].name]

generate_expression(g, expr) ==
    Bind(wrap_expression_identifiers(expr.content, g.ctx), LAMBDA wrapped :
    [g EXCEPT
        !.builder = CodeBuilder_push_mapped(@, wrapped, expr.span.start),
        !.emitted = Append(@,
            [expr |-> expr, wrapped |-> wrapped,
             gen_start |-> CodeBuilder_offset(g.builder),
             scope |-> ScopeNames(g.ctx)])])

\* One binding of an object pattern: `key: name`, `name = default`, `name`.
ObjectBindingName(raw) ==
    Bind(StrTrim(raw), LAMBDA part :
    IF IsSome(StrFind(part, <<":">>))
    THEN StrTrim(Slice(part, Unwrap(StrFind(part, <<":">>)) + 1, Len(part)))
    ELSE IF IsSome(StrFind(part, <<"=">>))
    THEN StrTrim(Slice(part, 0, Unwrap(StrFind(part, <<"=">>))))
    ELSE part)

extract_binding_names(raw) ==
    Bind(StrTrim(raw), LAMBDA pattern :
    IF Len(pattern) > 0 /\ pattern[1] = "{" /\ pattern[Len(pattern)] = "}"
    THEN Bind(StrSplit(Slice(pattern, 1, Len(pattern) - 1), {","}), LAMBDA parts :
         SelectSeq([i \in 1..Len(parts) |-> ObjectBindingName(parts[i])],
                   LAMBDA n : n # <<>>))
    ELSE IF Len(pattern) > 0 /\ pattern[1] = "[" /\ pattern[Len(pattern)] = "]"
    THEN Bind(StrSplit(Slice(pattern, 1, Len(pattern) - 1), {","}), LAMBDA parts :
         SelectSeq([i \in 1..Len(parts) |-> StrTrim(parts[i])],
                   LAMBDA n : n # <<>>))
    ELSE <<pattern>>)

\* for name in names { ctx.add_var(name, source) }
RECURSIVE AddVars(_, _, _)
AddVars(ctx, names, source) ==
    IF names = <<>> THEN ctx
    ELSE AddVars(CodegenContext_add_var(ctx, Head(names), source),
                 Tail(names), source)

RECURSIVE generate_props_check(_, _, _)
generate_props_check(g, props, indent) ==
    IF props = <<>> THEN g
    ELSE generate_props_check(
             Emit(generate_expression(
                      Emit(Emit(Emit(Emit(Emit(g, Indent(indent)),
                          <<"/", "/", " ", "p", "r", "o", "p", ":", " ">>), Head(props).name), <<"\n">>),
                          Indent(indent) \o <<"(">>),
                      Head(props).value),
                  <<")", ";", "\n">>),
             Tail(props), indent)

RECURSIVE generate_events_check(_, _, _)
generate_events_check(g, events, indent) ==
    IF events = <<>> THEN g
    ELSE generate_events_check(
             Emit(generate_expression(
                      Emit(Emit(Emit(Emit(Emit(g, Indent(indent)),
                          <<"/", "/", " ", "e", "v", "e", "n", "t", ":", " ">>), Head(events).name), <<"\n">>),
                          Indent(indent) \o <<"(">>),
                      Head(events).handler),
                  <<")", ";", "\n">>),
             Tail(events), indent)

\* generate_attr_check emits nothing.
generate_attr_check(g, attr, tag, indent) == g

generate_interpolation(g, interp, indent) ==
    Emit(generate_expression(
             Emit(Emit(Emit(Emit(Emit(g, Indent(indent)),
                 <<"/", "/", " ", "i", "n", "t", "e", "r", "p", "o", "l", "a", "t", "i", "o", "n", ":", " ", "{", "{", " ">>), interp.expression.content), <<" ", "}", "}", "\n">>),
                 Indent(indent) \o <<"(">>),
             interp.expression),
         <<")", ";", "\n">>)

\* The slot props of generate_slot_outlet's `for prop in &slot.props`.
RECURSIVE generate_slot_props(_, _, _)
generate_slot_props(g, props, indent) ==
    IF props = <<>> THEN g
    ELSE generate_slot_props(
             Emit(generate_expression(
                      Emit(Emit(Emit(g, Indent(indent) \o <<" ", " ">>),
                          Head(props).name), <<":", " ">>),
                      Head(props).value),
                  <<",", "\n">>),
             Tail(props), indent)

RECURSIVE generate_node(_, _, _)
RECURSIVE generate_nodes(_, _, _)
RECURSIVE generate_element(_, _, _)
RECURSIVE generate_slots(_, _, _)
RECURSIVE generate_if(_, _, _)
RECURSIVE generate_if_branches(_, _, _, _)
RECURSIVE generate_if_branch(_, _, _, _)
RECURSIVE generate_for(_, _, _)
RECURSIVE generate_slot_outlet(_, _, _)

generate_node(g, node, indent) ==
    IF node.type = "Element" THEN generate_element(g, node, indent)
    ELSE IF node.type = "Interpolation" THEN generate_interpolation(g, node, indent)
    ELSE IF node.type = "If" THEN generate_if(g, node, indent)
    ELSE IF node.type = "For" THEN generate_for(g, node, indent)
    ELSE IF node.type = "SlotOutlet" THEN generate_slot_outlet(g, node, indent)
    ELSE IF node.type = "Template" THEN generate_nodes(g, node.children, indent)
    ELSE g

\* for child in children { generate_node(builder, child, ctx, indent) }
generate_nodes(g, nodes, indent) ==
    IF nodes = <<>> THEN g
    ELSE Bind(generate_node(g, Head(nodes), indent), LAMBDA g1 :
         generate_nodes(g1, Tail(nodes), indent))

\* for (_name, slot) in &el.slots
generate_slots(g, slots, indent) ==
    IF slots = <<>> THEN g
    ELSE Bind(CodegenContext_enter_scope(g.ctx), LAMBDA scope_marker :
         Bind(generate_nodes(
                  [g EXCEPT !.ctx =
                      IF IsSome(Head(slots).props)
                      THEN AddVars(@,
                               extract_binding_names(Unwrap(Head(slots).props).pattern),
                               "SlotProps")
                      ELSE @],
                  Head(slots).children, indent + 1), LAMBDA g1 :
         generate_slots(
             [g1 EXCEPT !.ctx = CodegenContext_exit_scope(@, scope_marker)],
             Tail(slots), indent)))

generate_element(g, el, indent) ==
    Bind(IF el.is_component
         THEN Bind(CodegenContext_unique_id(
                       CodegenContext_use_component(g.ctx, el.tag), <<"c", "o", "m", "p", "o", "n", "e", "n", "t">>),
                   LAMBDA u :
              Emit(generate_slots(
                       generate_events_check(
                           generate_props_check(
                               Emit([g EXCEPT !.ctx = u.ctx],
                                   Indent(indent) \o <<"{", "\n">> \o Indent(indent)
                                       \o <<" ", " ", "c", "o", "n", "s", "t", " ", "_", "_", "V", "L", "S", "_">> \o u.id
                                       \o <<" ", "=", " ", "_", "_", "V", "L", "S", "_", "r", "e", "s", "o", "l", "v", "e", "C", "o", "m", "p", "o", "n", "e", "n", "t", "(", "'">> \o el.tag
                                       \o <<"'", ")", ";", "\n">>),
                               el.props, indent + 1),
                           el.events, indent + 1),
                       el.slots, indent),
                   Indent(indent) \o <<"}", "\n">>))
         ELSE IF is_html_tag(el.tag) \/ is_svg_tag(el.tag)
         THEN Emit(generate_events_check(
                       generate_props_check(
                           Emit(g, Indent(indent) \o <<"{", "\n">>),
                           el.props, indent + 1),
                       el.events, indent + 1),
                   Indent(indent) \o <<"}", "\n">>)
         ELSE g, LAMBDA g1 :
    generate_nodes(g1, el.children, indent))

generate_if_branch(g, branch, indent, is_first) ==
    generate_nodes(
        IF is_first
        THEN Emit(IF IsSome(branch.condition)
                  THEN generate_expression(Emit(g, Indent(indent) \o <<"i", "f", " ", "(">>),
                                           Unwrap(branch.condition))
                  ELSE Emit(g, Indent(indent) \o <<"i", "f", " ", "(">>),
                  <<")", " ", "{", "\n">>)
        ELSE IF IsSome(branch.condition)
        THEN Emit(generate_expression(Emit(g, Indent(indent) \o <<"}", " ", "e", "l", "s", "e", " ", "i", "f", " ", "(">>),
                                      Unwrap(branch.condition)),
                  <<")", " ", "{", "\n">>)
        ELSE Emit(g, Indent(indent) \o <<"}", " ", "e", "l", "s", "e", " ", "{", "\n">>),
        branch.children, indent + 1)

\* for (i, branch) in if_node.branches.iter().enumerate()
generate_if_branches(g, branches, indent, i) ==
    IF i > Len(branches) THEN g
    ELSE generate_if_branches(
             generate_if_branch(g, branches[i], indent, i = 1),
             branches, indent, i + 1)

generate_if(g, if_node, indent) ==
    Emit(generate_if_branches(g, if_node.branches, indent, 1),
         Indent(indent) \o <<"}", "\n">>)

\* The loop variables of generate_for, added to the scope and written
\* between the brackets, before the source expression is emitted.
generate_for_aliases(g, for_node, indent) ==
    Bind(Emit([g EXCEPT !.ctx =
                   CodegenContext_add_var(@, for_node.value.pattern, "VFor")],
              Indent(indent) \o <<"f", "o", "r", " ", "(", "c", "o", "n", "s", "t", " ", "[">> \o for_node.value.pattern),
         LAMBDA g1 :
    Bind(IF IsSome(for_node.key)
         THEN Emit([g1 EXCEPT !.ctx =
                       CodegenContext_add_var(@, Unwrap(for_node.key).pattern, "VFor")],
                   <<",", " ">> \o Unwrap(for_node.key).pattern)
         ELSE g1, LAMBDA g2 :
    IF IsSome(for_node.index)
    THEN Emit([g2 EXCEPT !.ctx =
                  CodegenContext_add_var(@, Unwrap(for_node.index).pattern, "VFor")],
              <<",", " ">> \o Unwrap(for_node.index).pattern)
    ELSE g2))

generate_for(g, for_node, indent) ==
    Bind(CodegenContext_enter_scope(g.ctx), LAMBDA scope_marker :
    Bind(Emit(generate_nodes(
                  Emit(generate_expression(
                           Emit(generate_for_aliases(g, for_node, indent),
                                <<"]", " ", "o", "f", " ", "_", "_", "V", "L", "S", "_", "g", "e", "t", "V", "F", "o", "r", "S", "o", "u", "r", "c", "e", "T", "y", "p", "e", "(">>),
                           for_node.source),
                       <<")", ")", " ", "{", "\n">>),
                  for_node.children, indent + 1),
              Indent(indent) \o <<"}", "\n">>), LAMBDA g1 :
    [g1 EXCEPT !.ctx = CodegenContext_exit_scope(@, scope_marker)]))

generate_slot_outlet(g, slot, indent) ==
    generate_nodes(
        Emit(generate_slot_props(
                 Emit(generate_expression(
                          Emit(g, Indent(indent) \o <<"/", "/", " ", "s", "l", "o", "t", " ", "o", "u", "t", "l", "e", "t", "\n">>
                                  \o Indent(indent) \o <<"_", "_", "V", "L", "S", "_", "c", "t", "x", ".", "$", "s", "l", "o", "t", "s", "[">>),
                          slot.name),
                      <<"]", "?", ".", "(", "{", "\n">>),
                 slot.props, indent),
             Indent(indent) \o <<"}", ")", ";", "\n">>),
        slot.fallback, indent)

generate_template(g, ast) ==
    Emit(generate_nodes(
             Emit(g, <<"\n", "/", "/", " ", "T", "e", "m", "p", "l", "a", "t", "e", " ", "t", "y", "p", "e", " ", "c", "h", "e", "c", "k", "i", "n", "g", "\n">>
                     \o <<"f", "u", "n", "c", "t", "i", "o", "n", " ", "_", "_", "V", "L", "S", "_", "t", "e", "m", "p", "l", "a", "t", "e", "(", ")", " ", "{", "\n">>
                     \o <<" ", " ", "c", "o", "n", "s", "t", " ", "_", "_", "V", "L", "S", "_", "c", "t", "x", " ", "=", " ", "{", "}", " ", "a", "s", " ", "_", "_", "V", "L", "S", "_", "T", "e", "m", "p", "l", "a", "t", "e", "C", "o", "n", "t", "e", "x", "t", " ", "&", " ", "{", "\n">>
                     \o <<" ", " ", " ", " ", "$", "p", "r", "o", "p", "s", ":", " ", "t", "y", "p", "e", "o", "f", " ", "_", "_", "V", "L", "S", "_", "p", "r", "o", "p", "s", ";", "\n">>
                     \o <<" ", " ", " ", " ", "$", "e", "m", "i", "t", ":", " ", "t", "y", "p", "e", "o", "f", " ", "_", "_", "V", "L", "S", "_", "e", "m", "i", "t", ";", "\n">>
                     \o <<" ", " ", "}", ";", "\n", "\n">>),
             ast.children, 1),
         <<"}", "\n">>)

(***************************************************************************)
(* crates/vue-codegen: script.rs and lib.rs                                *)
(***************************************************************************)
generate_script(g, script) ==
    [g EXCEPT !.builder =
        CodeBuilder_newline(CodeBuilder_newline(
            CodeBuilder_push_mapped(
                CodeBuilder_push_str(@, <<"/", "/", " ", "S", "c", "r", "i", "p", "t", " ", "b", "l", "o", "c", "k", "\n">>),
                script.block.content, script.block.content_span.start)))]

\* extract_macros, for script-setup contents in which no macro name is
\* followed by a type argument or an object literal and which call neither
\* defineModel nor defineExpose: what the regular expressions capture is
\* then nothing, and only the presence of a macro name is recorded.
extract_macros(content) ==
    [MacroInfo_default EXCEPT
        !.define_props = IF StrContains(content, <<"d", "e", "f", "i", "n", "e", "P", "r", "o", "p", "s">>)
                         THEN Some([type_arg |-> None, destructure_pattern |-> None])
                         ELSE None,
        !.define_emits = IF StrContains(content, <<"d", "e", "f", "i", "n", "e", "E", "m", "i", "t", "s">>)
                         THEN Some([type_arg |-> None]) ELSE None,
        !.define_slots = IF StrContains(content, <<"d", "e", "f", "i", "n", "e", "S", "l", "o", "t", "s">>)
                         THEN Some([type_arg |-> None]) ELSE None]

generate_macro_declarations(g, macros) ==
    Emit(Emit(Emit(g,
        IF IsSome(macros.define_props)
        THEN <<"c", "o", "n", "s", "t", " ", "_", "_", "V", "L", "S", "_", "p", "r", "o", "p", "s", " ", "=", " ", "d", "e", "f", "i", "n", "e", "P", "r", "o", "p", "s", "(", ")", ";", "\n">> ELSE <<>>),
        IF IsSome(macros.define_emits)
        THEN <<"c", "o", "n", "s", "t", " ", "_", "_", "V", "L", "S", "_", "e", "m", "i", "t", " ", "=", " ", "d", "e", "f", "i", "n", "e", "E", "m", "i", "t", "s", "(", ")", ";", "\n">> ELSE <<>>),
        IF IsSome(macros.define_slots)
        THEN <<"c", "o", "n", "s", "t", " ", "_", "_", "V", "L", "S", "_", "s", "l", "o", "t", "s", " ", "=", " ", "d", "e", "f", "i", "n", "e", "S", "l", "o", "t", "s", "(", ")", ";", "\n">> ELSE <<>>)

generate_script_setup(g, script_setup) ==
    Bind([g EXCEPT !.ctx.generics = script_setup.generic,
                   !.ctx.macros = extract_macros(script_setup.block.content)],
         LAMBDA g1 :
    Bind(generate_macro_declarations(
             Emit(g1, IF IsSome(g1.ctx.generics)
                      THEN <<"f", "u", "n", "c", "t", "i", "o", "n", " ", "_", "_", "V", "L", "S", "_", "s", "e", "t", "u", "p", "<">> \o Unwrap(g1.ctx.generics)
                               \o <<">", "(", ")", " ", "{", "\n">>
                      ELSE <<"f", "u", "n", "c", "t", "i", "o", "n", " ", "_", "_", "V", "L", "S", "_", "s", "e", "t", "u", "p", "(", ")", " ", "{", "\n">>),
             g1.ctx.macros), LAMBDA g2 :
    Emit([g2 EXCEPT !.builder =
             CodeBuilder_newline(
                 CodeBuilder_push_mapped(@, script_setup.block.content,
                     script_setup.block.content_span.start))],
         <<"\n", "r", "e", "t", "u", "r", "n", " ", "{", "\n">> \o <<"}", ";", "\n">> \o <<"}", "\n", "\n">>)))

generate_helpers(g) ==
    [g EXCEPT !.builder =
        CodeBuilder_newline(
            CodeBuilder_push_str(CodeBuilder_push_str(@, VLS_IMPORTS),
                                 VLS_HELPER_TYPES))]

generate_component_export(g, sfc) ==
    Emit(g, <<"\n", "/", "/", " ", "C", "o", "m", "p", "o", "n", "e", "n", "t", " ", "d", "e", "f", "i", "n", "i", "t", "i", "o", "n", "\n">> \o
        (IF IsSome(sfc.script_setup)
         THEN <<"e", "x", "p", "o", "r", "t", " ", "d", "e", "f", "a", "u", "l", "t", " ", "_", "_", "V", "L", "S", "_", "d", "e", "f", "i", "n", "e", "C", "o", "m", "p", "o", "n", "e", "n", "t", "(", "{", "\n">>
              \o (IF IsSome(g.ctx.macros.define_props)
                  THEN <<" ", " ", "p", "r", "o", "p", "s", ":", " ", "{", "}", " ", "a", "s", " ", "_", "_", "V", "L", "S", "_", "E", "x", "t", "r", "a", "c", "t", "P", "r", "o", "p", "T", "y", "p", "e", "s", "<", "t", "y", "p", "e", "o", "f", " ", "_", "_", "V", "L", "S", "_", "p", "r", "o", "p", "s", ">", ",", "\n">>
                  ELSE <<>>)
              \o (IF IsSome(g.ctx.macros.define_emits)
                  THEN <<" ", " ", "e", "m", "i", "t", "s", ":", " ", "{", "}", " ", "a", "s", " ", "t", "y", "p", "e", "o", "f", " ", "_", "_", "V", "L", "S", "_", "e", "m", "i", "t", ",", "\n">> ELSE <<>>)
              \o <<" ", " ", "s", "e", "t", "u", "p", ":", " ", "_", "_", "V", "L", "S", "_", "s", "e", "t", "u", "p", ",", "\n">> \o <<"}", ")", ";", "\n">>
         ELSE IF IsSome(sfc.script)
         THEN <<"/", "/", " ", "U", "s", "i", "n", "g", " ", "O", "p", "t", "i", "o", "n", "s", " ", "A", "P", "I", " ", "c", "o", "m", "p", "o", "n", "e", "n", "t", "\n">>
         ELSE <<"e", "x", "p", "o", "r", "t", " ", "d", "e", "f", "a", "u", "l", "t", " ", "_", "_", "V", "L", "S", "_", "d", "e", "f", "i", "n", "e", "C", "o", "m", "p", "o", "n", "e", "n", "t", "(", "{", "}", ")", ";", "\n">>))

\* Sfc::script_lang and detect_script_lang
detect_script_lang(sfc) ==
    Bind(IF IsSome(sfc.script_setup) /\ IsSome(Unwrap(sfc.script_setup).lang)
         THEN Unwrap(Unwrap(sfc.script_setup).lang)
         ELSE IF IsSome(sfc.script) /\ IsSome(Unwrap(sfc.script).lang)
         THEN Unwrap(Unwrap(sfc.script).lang)
         ELSE <<"j", "s">>, LAMBDA lang_str :
    IF lang_str \in {<<"t", "s">>, <<"t", "y", "p", "e", "s", "c", "r", "i", "p", "t">>} THEN "Ts"
    ELSE IF lang_str = <<"t", "s", "x">> THEN "Tsx"
    ELSE IF lang_str = <<"j", "s", "x">> THEN "Jsx"
    ELSE "Js")

\* generate(sfc): kind "ok" with the CodegenResult, or kind "hang" when
\* parse_template does not return.  `template` is the outcome of
\* parse_template on the template block's content, and `emitted` the
\* history of generate_expression calls.
generate(sfc) ==
    Bind(generate_helpers(
             [builder |-> CodeBuilder_new,
              ctx |-> [CodegenContext_new EXCEPT !.lang = detect_script_lang(sfc)],
              emitted |-> <<>>]), LAMBDA g0 :
    Bind(IF IsSome(sfc.script) THEN generate_script(g0, Unwrap(sfc.script))
         ELSE g0, LAMBDA g1 :
    Bind(IF IsSome(sfc.script_setup)
         THEN generate_script_setup(g1, Unwrap(sfc.script_setup))
         ELSE g1, LAMBDA g2 :
    Bind(IF IsSome(sfc.template)
         THEN Some(parse_template(Unwrap(sfc.template).block.content))
         ELSE None, LAMBDA template :
    IF IsSome(template) /\ Unwrap(template).kind = "hang"
    THEN [kind |-> "hang", template |-> template]
    ELSE
    Bind(generate_component_export(
             IF IsSome(template) /\ Unwrap(template).kind = "ok"
             THEN generate_template(g2, Unwrap(template).ast)
             ELSE g2, sfc), LAMBDA g3 :
    [kind |-> "ok",
     code |-> g3.builder.code,
     source_map |-> g3.builder.source_map,
     lang |-> g3.ctx.lang,
     errors |-> g3.ctx.errors,
     template |-> template,
     emitted |-> g3.emitted])))))

(***************************************************************************)
(* crates/ts-runner: diagnostics.rs.  A HashMap is a function whose domain *)
(* is its key set; a path is an opaque string.                             *)
(***************************************************************************)
HashMap_new == <<>>

HashMap_insert(map, key, value) ==
    [k \in (DOMAIN map) \cup {key} |-> IF k = key THEN value ELSE map[k]]

HashMap_get(map, key) == IF key \in DOMAIN map THEN Some(map[key]) ELSE None

TsDiagnostic(file, line, column) ==
    [message |-> "m", code |-> 2322, severity |-> "Error", file |-> file,
     line |-> line, column |-> column, end_line |-> None,
     end_column |-> None, related |-> <<>>]

DiagnosticRemapper_new ==
    [virtual_to_original |-> HashMap_new, source_maps |-> HashMap_new,
     line_indices |-> HashMap_new]

DiagnosticRemapper_register(self, virtual_file, original_file, source_map, original_content) ==
    [virtual_to_original |->
         HashMap_insert(self.virtual_to_original, virtual_file, original_file),
     source_maps |-> HashMap_insert(self.source_maps, virtual_file, source_map),
     line_indices |->
         HashMap_insert(self.line_indices, original_file,
                        LineIndex_new(original_content))]

\* The position rewrite at the end of remap: find_source is called with the
\* diagnostic's column, and the line/column written are those of the found
\* mapping's source_offset.
DiagnosticRemapper_remap_position(self, diagnostic, source_map, original_file) ==
    IF IsSome(diagnostic.line) /\ IsSome(diagnostic.column)
    THEN Bind(SourceMap_find_source(source_map, Unwrap(diagnostic.column)),
              LAMBDA mapping :
         IF IsSome(mapping) /\ IsSome(HashMap_get(self.line_indices, original_file))
         THEN Bind(LineIndex_line_col(
                       Unwrap(HashMap_get(self.line_indices, original_file)),
                       Unwrap(mapping).source_offset), LAMBDA orig_line_col :
              [diagnostic EXCEPT !.line = Some(orig_line_col.line + 1),
                                 !.column = Some(orig_line_col.col + 1)])
         ELSE diagnostic)
    ELSE diagnostic

DiagnosticRemapper_remap(self, diagnostic) ==
    IF diagnostic.file = None THEN diagnostic
    ELSE Bind(Unwrap(diagnostic.file), LAMBDA file :
         IF HashMap_get(self.virtual_to_original, file) = None THEN diagnostic
         ELSE IF HashMap_get(self.source_maps, file) = None THEN diagnostic
         ELSE DiagnosticRemapper_remap_position(self,
                  [diagnostic EXCEPT !.file =
                      HashMap_get(self.virtual_to_original, file)],
                  self.source_maps[file],
                  self.virtual_to_original[file]))

DiagnosticRemapper_remap_all(self, diagnostics) ==
    [i \in 1..Len(diagnostics) |-> DiagnosticRemapper_remap(self, diagnostics[i])]

(***************************************************************************)
(* crates/vue-diagnostics: Diagnostic, the template checks and the         *)
(* component checks                                                        *)
(***************************************************************************)
Diagnostic_error(message, span, code) ==
    [message |-> message, span |-> span, severity |-> "Error", code |-> code]

Diagnostic_warning(message, span, code) ==
    [message |-> message, span |-> span, severity |-> "Warning", code |-> code]

\* #[derive(Default)] of DiagnosticOptions
DiagnosticOptions_default ==
    [check_unknown_components |-> FALSE,
     check_unknown_directives |-> FALSE,
     check_v_for_keys |-> FALSE,
     known_components |-> <<>>,
     known_directives |-> <<>>]

\* iter().any(|c| c.eq_ignore_ascii_case(name))
AnyIgnoreCase(names, name) ==
    \E i \in 1..Len(names) : eq_ignore_ascii_case(names[i], name)

is_builtin_directive(name) ==
    name \in {<<"i", "f">>, <<"e", "l", "s", "e">>, <<"e", "l", "s", "e", "-", "i", "f">>, <<"f", "o", "r">>, <<"s", "h", "o", "w">>, <<"b", "i", "n", "d">>, <<"o", "n">>, <<"m", "o", "d", "e", "l">>,
              <<"s", "l", "o", "t">>, <<"p", "r", "e">>, <<"c", "l", "o", "a", "k">>, <<"o", "n", "c", "e">>, <<"m", "e", "m", "o">>, <<"h", "t", "m", "l">>, <<"t", "e", "x", "t">>}

is_builtin_component(name) ==
    to_lowercase(name) \in {<<"t", "r", "a", "n", "s", "i", "t", "i", "o", "n">>, <<"t", "r", "a", "n", "s", "i", "t", "i", "o", "n", "-", "g", "r", "o", "u", "p">>, <<"t", "r", "a", "n", "s", "i", "t", "i", "o", "n", "g", "r", "o", "u", "p">>,
                            <<"k", "e", "e", "p", "-", "a", "l", "i", "v", "e">>, <<"k", "e", "e", "p", "a", "l", "i", "v", "e">>, <<"s", "u", "s", "p", "e", "n", "s", "e">>, <<"t", "e", "l", "e", "p", "o", "r", "t">>,
                            <<"s", "l", "o", "t">>, <<"c", "o", "m", "p", "o", "n", "e", "n", "t">>}

is_known_component(name, options) ==
    is_builtin_component(name) \/ AnyIgnoreCase(options.known_components, name)

is_known_directive(name, options) ==
    AnyIgnoreCase(options.known_directives, name)

can_use_v_model(tag) ==
    IF to_lowercase(tag) \in {<<"i", "n", "p", "u", "t">>, <<"s", "e", "l", "e", "c", "t">>, <<"t", "e", "x", "t", "a", "r", "e", "a">>}
    THEN TRUE
    ELSE IF (tag # <<>> /\ is_uppercase(tag[1])) \/ StrContains(tag, <<"-">>)
    THEN TRUE
    ELSE FALSE

\* The `Check for unknown directives` loop of check_element.
RECURSIVE UnknownDirectives(_, _)
UnknownDirectives(directives, options) ==
    IF directives = <<>> THEN <<>>
    ELSE (IF ~is_builtin_directive(Head(directives).name)
             /\ ~is_known_directive(Head(directives).name, options)
          THEN <<Diagnostic_warning(<<"U", "n", "k", "n", "o", "w", "n", " ", "d", "i", "r", "e", "c", "t", "i", "v", "e", ":", " ", "v", "-">> \o Head(directives).name,
                                    Head(directives).span, "UnknownDirective")>>
          ELSE <<>>)
         \o UnknownDirectives(Tail(directives), options)

\* The walk that reports nothing at a For node and goes on to its children.
check_for_silent(f, options, diagnostics) == diagnostics

\* check_node and the functions it calls: each returns the diagnostics vector
\* after its pushes.
RECURSIVE check_node(_, _, _)
RECURSIVE check_nodes(_, _, _)
RECURSIVE check_element(_, _, _)
RECURSIVE check_slots(_, _, _)
RECURSIVE check_for(_, _, _)
RECURSIVE check_if(_, _, _)

check_node(node, options, diagnostics) ==
    IF node.type = "Element" THEN check_element(node, options, diagnostics)
    ELSE IF node.type = "For" THEN check_for(node, options, diagnostics)
    ELSE IF node.type = "If" THEN check_if(node, options, diagnostics)
    ELSE IF node.type = "Template" THEN check_nodes(node.children, options, diagnostics)
    ELSE IF node.type = "SlotOutlet" THEN check_nodes(node.fallback, options, diagnostics)
    ELSE diagnostics

\* for child in children { check_node(child, options, diagnostics) }
check_nodes(nodes, options, diagnostics) ==
    IF nodes = <<>> THEN diagnostics
    ELSE Bind(check_node(Head(nodes), options, diagnostics), LAMBDA d :
         check_nodes(Tail(nodes), options, d))

\* for (_name, slot) in &el.slots
check_slots(slots, options, diagnostics) ==
    IF slots = <<>> THEN diagnostics
    ELSE Bind(check_nodes(Head(slots).children, options, diagnostics), LAMBDA d :
         check_slots(Tail(slots), options, d))

check_element(el, options, diagnostics) ==
    Bind(IF options.check_unknown_components /\ el.is_component
            /\ ~is_known_component(el.tag, options)
         THEN Append(diagnostics,
                  Diagnostic_warning(<<"U", "n", "k", "n", "o", "w", "n", " ", "c", "o", "m", "p", "o", "n", "e", "n", "t", ":", " ", "<">> \o el.tag \o <<">">>,
                                     el.tag_span, "UnknownComponent"))
         ELSE diagnostics, LAMBDA d1 :
    Bind(IF options.check_unknown_directives
         THEN d1 \o UnknownDirectives(el.directives, options)
         ELSE d1, LAMBDA d2 :
    Bind(FindNamed(el.directives, <<"m", "o", "d", "e", "l">>), LAMBDA model_dir :
    Bind(IF IsSome(model_dir) /\ ~can_use_v_model(el.tag)
         THEN Append(d2,
                  Diagnostic_error(<<"v", "-", "m", "o", "d", "e", "l", " ", "i", "s", " ", "n", "o", "t", " ", "v", "a", "l", "i", "d", " ", "o", "n", " ", "<">> \o el.tag \o <<">", " ", "e", "l", "e", "m", "e", "n", "t", "s">>,
                                   Unwrap(model_dir).span, "InvalidVModel"))
         ELSE d2, LAMBDA d3 :
    check_slots(el.slots, options,
                check_nodes(el.children, options, d3))))))

check_for(f, options, diagnostics) ==
    check_nodes(f.children, options,
        IF options.check_v_for_keys /\ f.key_attr = None
        THEN Append(diagnostics,
                 Diagnostic_warning(<<"v", "-", "f", "o", "r", " ", "i", "s", " ", "m", "i", "s", "s", "i", "n", "g", " ", "a", " ", ":", "k", "e", "y", " ", "a", "t", "t", "r", "i", "b", "u", "t", "e">>,
                                    f.span, "MissingKey"))
        ELSE diagnostics)

\* for branch in &i.branches { for child in &branch.children { ... } }
RECURSIVE check_branches(_, _, _)
check_branches(branches, options, diagnostics) ==
    IF branches = <<>> THEN diagnostics
    ELSE Bind(check_nodes(Head(branches).children, options, diagnostics), LAMBDA d :
         check_branches(Tail(branches), options, d))

check_if(i, options, diagnostics) ==
    check_branches(i.branches, options, diagnostics)

check_template(ast, options) ==
    check_nodes(ast.children, options, <<>>)

\* str::matches(pat).count(): the non-overlapping occurrences, left to right.
RECURSIVE MatchesCountFrom(_, _, _)
MatchesCountFrom(s, pat, from) ==
    Bind(FindFrom(s, pat, from), LAMBDA at :
    IF at = None THEN 0
    ELSE 1 + MatchesCountFrom(s, pat, Unwrap(at) + Len(pat)))

MatchesCount(s, pat) == MatchesCountFrom(s, pat, 0)

\* The macros check_script_setup counts, in the order it counts them.
CountedMacros ==
    <<<<"d", "e", "f", "i", "n", "e", "P", "r", "o", "p", "s">>, <<"d", "e", "f", "i", "n", "e", "E", "m", "i", "t", "s">>, <<"d", "e", "f", "i", "n", "e", "S", "l", "o", "t", "s">>, <<"d", "e", "f", "i", "n", "e", "E", "x", "p", "o", "s", "e">>, <<"d", "e", "f", "i", "n", "e", "O", "p", "t", "i", "o", "n", "s">>>>

\* `let props_count = content.matches("defineProps").count(); if props_count > 1`
MacroRepeated(content, macro) == MatchesCount(content, macro) > 1

RECURSIVE check_script_setup_from(_, _, _)
check_script_setup_from(content, span, i) ==
    IF i > Len(CountedMacros) THEN <<>>
    ELSE (IF MacroRepeated(content, CountedMacros[i])
          THEN <<Diagnostic_error(CountedMacros[i] \o <<" ", "c", "a", "n", " ", "o", "n", "l", "y", " ", "b", "e", " ", "c", "a", "l", "l", "e", "d", " ", "o", "n", "c", "e">>,
                                  span, "DuplicateMacro")>>
          ELSE <<>>)
         \o check_script_setup_from(content, span, i + 1)

check_script_setup(content, span) == check_script_setup_from(content, span, 1)

check_sfc(sfc, options) ==
    IF IsSome(sfc.script_setup)
    THEN check_script_setup(Unwrap(sfc.script_setup).block.content,
                            Unwrap(sfc.script_setup).block.content_span)
    ELSE <<>>

\* diagnose_sfc: the component checks, then the template checks when the
\* template parses.  parse_template may also not return (kind "hang"); then
\* diagnose_sfc does not return either.
diagnose_sfc(sfc, options) ==
    IF IsSome(sfc.template)
    THEN Bind(parse_template(Unwrap(sfc.template).block.content), LAMBDA t :
         IF t.kind = "hang" THEN [kind |-> "hang"]
         ELSE [kind |-> "ok",
               diagnostics |->
                   check_sfc(sfc, options)
                   \o (IF t.kind = "ok" THEN check_template(t.ast, options)
                       ELSE <<>>)])
    ELSE [kind |-> "ok", diagnostics |-> check_sfc(sfc, options)]

is_reserved_name(name) ==
    to_lowercase(name) \in {<<"s", "l", "o", "t">>, <<"c", "o", "m", "p", "o", "n", "e", "n", "t">>, <<"t", "e", "m", "p", "l", "a", "t", "e">>, <<"s", "c", "r", "i", "p", "t">>, <<"s", "t", "y", "l", "e">>,
                            <<"h", "t", "m", "l">>, <<"b", "o", "d", "y">>, <<"h", "e", "a", "d">>, <<"b", "a", "s", "e">>}

check_component_name(name) ==
    IF name = <<>>
    THEN Some(Diagnostic_warning(<<"C", "o", "m", "p", "o", "n", "e", "n", "t", " ", "n", "a", "m", "e", " ", "s", "h", "o", "u", "l", "d", " ", "n", "o", "t", " ", "b", "e", " ", "e", "m", "p", "t", "y">>,
                                 Span_empty(0), "InvalidComponentName"))
    ELSE IF ~is_uppercase(name[1])
    THEN Some(Diagnostic_warning(
                  <<"C", "o", "m", "p", "o", "n", "e", "n", "t", " ", "n", "a", "m", "e", " ", "'">> \o name \o <<"'", " ", "s", "h", "o", "u", "l", "d", " ", "b", "e", " ", "i", "n", " ", "P", "a", "s", "c", "a", "l", "C", "a", "s", "e">>,
                  Span_empty(0), "InvalidComponentName"))
    ELSE IF is_reserved_name(name)
    THEN Some(Diagnostic_error(
                  <<"'">> \o name \o <<"'", " ", "i", "s", " ", "a", " ", "r", "e", "s", "e", "r", "v", "e", "d", " ", "n", "a", "m", "e", " ", "a", "n", "d", " ", "c", "a", "n", "n", "o", "t", " ", "b", "e", " ", "u", "s", "e", "d", " ", "a", "s", " ", "a", " ", "c", "o", "m", "p", "o", "n", "e", "n", "t", " ", "n", "a", "m", "e">>,
                  Span_empty(0), "InvalidComponentName"))
    ELSE None

(***************************************************************************)
(* u32 arithmetic.  A number is the sequence of its binary digits, least   *)
(* significant first and without leading zeros, so that values up to       *)
(* 2^32 - 1 and the 64-bit products of two of them are exact.              *)
(***************************************************************************)
U32Bits == 32

\* The number n (a small natural) as binary digits.
RECURSIVE BitsOf(_)
BitsOf(n) == IF n = 0 THEN <<>> ELSE <<n % 2>> \o BitsOf(n \div 2)

\* 2^k and 2^k - 1
BitsPow2(k) == [i \in 1..(k + 1) |-> IF i = k + 1 THEN 1 ELSE 0]
BitsOnes(k) == [i \in 1..k |-> 1]

\* u32::MAX
U32_MAX == BitsOnes(U32Bits)

\* Drop leading zeros.
BitsNorm(b) ==
    IF \E i \in 1..Len(b) : b[i] = 1
    THEN SubSeq(b, 1, SetMax({i \in 1..Len(b) : b[i] = 1}))
    ELSE <<>>

BitAt(b, i) == IF i <= Len(b) THEN b[i] ELSE 0

BitsLt(a, b) ==
    \/ Len(a) < Len(b)
    \/ /\ Len(a) = Len(b)
       /\ \E i \in 1..Len(a) :
              /\ a[i] < b[i]
              /\ \A j \in (i + 1)..Len(a) : a[j] = b[j]

BitsLe(a, b) == a = b \/ BitsLt(a, b)

\* a + b, exact.
RECURSIVE BitsAddFrom(_, _, _, _)
BitsAddFrom(a, b, i, carry) ==
    IF i > Len(a) /\ i > Len(b)
    THEN IF carry = 1 THEN <<1>> ELSE <<>>
    ELSE <<(BitAt(a, i) + BitAt(b, i) + carry) % 2>>
         \o BitsAddFrom(a, b, i + 1, (BitAt(a, i) + BitAt(b, i) + carry) \div 2)

BitsAdd(a, b) == BitsAddFrom(a, b, 1, 0)

\* a - b for b <= a, exact.
RECURSIVE BitsSubFrom(_, _, _, _)
BitsSubFrom(a, b, i, borrow) ==
    IF i > Len(a) THEN <<>>
    ELSE <<(2 + BitAt(a, i) - BitAt(b, i) - borrow) % 2>>
         \o BitsSubFrom(a, b, i + 1,
                IF BitAt(a, i) - BitAt(b, i) - borrow < 0 THEN 1 ELSE 0)

BitsSub(a, b) == BitsNorm(BitsSubFrom(a, b, 1, 0))

\* 2 * a
BitsDouble(a) == IF a = <<>> THEN <<>> ELSE <<0>> \o a

\* a * b, exact.
RECURSIVE BitsMul(_, _)
BitsMul(a, b) ==
    IF a = <<>> THEN <<>>
    ELSE BitsAdd(IF a[1] = 1 THEN b ELSE <<>>, BitsDouble(BitsMul(Tail(a), b)))

\* a / b rounded down, for b > 0: binary long division from the top digit of
\* a down to digit i, with remainder r and the quotient digits found so far.
RECURSIVE BitsDivFrom(_, _, _, _, _)
BitsDivFrom(a, b, i, r, q) ==
    IF i = 0 THEN BitsNorm(q)
    ELSE Bind(BitsNorm(<<a[i]>> \o r), LAMBDA r1 :
         IF BitsLe(b, r1)
         THEN BitsDivFrom(a, b, i - 1, BitsSub(r1, b), <<1>> \o q)
         ELSE BitsDivFrom(a, b, i - 1, r1, <<0>> \o q))

BitsDiv(a, b) == BitsDivFrom(a, b, Len(a), <<>>, <<>>)

\* The low 32 bits of a: what a wrapping u32 operation keeps.
U32_wrap(a) == BitsNorm(SubSeq(a, 1, Min(Len(a), U32Bits)))

\* Whether a is a u32.
U32_fits(a) == Len(a) <= U32Bits

\* a * b on u32: the wrapped value, and whether the exact product left 32 bits.
U32_mul(a, b) ==
    [value |-> U32_wrap(BitsMul(a, b)), overflow |-> ~U32_fits(BitsMul(a, b))]

\* a + b on u32, likewise.
U32_add(a, b) ==
    [value |-> U32_wrap(BitsAdd(a, b)), overflow |-> ~U32_fits(BitsAdd(a, b))]

\* find_source on a map of one mapping whose fields are u32 values: the
\* mapping when it covers the offset.  The sums are exact: the mappings
\* drawn end inside the u32 range.
SourceMap_find_source_u32(m, generated_offset) ==
    IF /\ BitsLe(m.generated_offset, generated_offset)
       /\ BitsLt(generated_offset,
                 BitsAdd(m.generated_offset, m.generated_length))
    THEN Some(m)
    ELSE None

\* The end of the closure of to_source_offset: `m.source_offset + scaled`,
\* after a product that did or did not overflow.
ScaledOffset(m, scaled, overflowed, overflow_checks) ==
    Bind(U32_add(m.source_offset, scaled), LAMBDA sum :
    IF sum.overflow /\ overflow_checks
    THEN [kind |-> "panic", overflow |-> TRUE]
    ELSE [kind |-> "ok", value |-> Some(sum.value),
          overflow |-> overflowed \/ sum.overflow])

\* to_source_offset on a map of one mapping, at the width of the code.  An
\* overflowing `delta * m.source_length` or sum panics in a build with
\* overflow checks and wraps in a build without.
SourceMap_to_source_offset_u32(mapping, generated_offset, overflow_checks) ==
    Bind(SourceMap_find_source_u32(mapping, generated_offset), LAMBDA found :
    IF found = None THEN [kind |-> "ok", value |-> None, overflow |-> FALSE]
    ELSE
    Bind(Unwrap(found), LAMBDA m :
    Bind(BitsSub(generated_offset, m.generated_offset), LAMBDA delta :
    IF m.generated_length = m.source_length
    THEN ScaledOffset(m, delta, FALSE, overflow_checks)
    ELSE IF m.generated_length # <<>>
    THEN Bind(U32_mul(delta, m.source_length), LAMBDA product :
         IF product.overflow /\ overflow_checks
         THEN [kind |-> "panic", overflow |-> TRUE]
         ELSE ScaledOffset(m, BitsDiv(product.value, m.generated_length),
                           product.overflow, overflow_checks))
    ELSE ScaledOffset(m, <<>>, FALSE, overflow_checks))))

(***************************************************************************)
(* The state of each component before it is used: what a specification     *)
(* pins the other components to.                                           *)
(***************************************************************************)
BuilderIdle ==
    /\ builder = CodeBuilder_new
    /\ calls = <<>>

SmapIdle ==
    /\ smap = <<>>
    /\ smap_query = None

LineIdle ==
    /\ li_text = <<>>
    /\ li_index = None
    /\ li_probe = None

SfcIdle ==
    /\ sfc_source = <<>>
    /\ sfc_out = None
    /\ sfc_blocks = <<>>

TplIdle ==
    /\ tpl_source = <<>>
    /\ tpl_out = None
    /\ tpl_attrs = <<>>

GenIdle ==
    /\ gen_source = <<>>
    /\ gen_out = None

ExprIdle ==
    /\ ex_raw = <<>>
    /\ ex_scope = <<>>
    /\ ex_out = None

RemapIdle ==
    /\ rm_files = HashMap_new
    /\ rm_reg = DiagnosticRemapper_new
    /\ rm_input = <<>>
    /\ rm_diags = <<>>
    /\ rm_done = FALSE

DiagIdle ==
    /\ dg_input = <<>>
    /\ dg_options = DiagnosticOptions_default
    /\ dg_out = None

ScaleIdle ==
    /\ sc_mapping = None
    /\ sc_offset = <<>>
    /\ sc_out = None

OrchIdle ==
    /\ or_running = FALSE
    /\ or_outcome = <<>>
    /\ or_queue = {}
    /\ or_worker = [w \in 1..MaxWorkers |-> [pc |-> "idle", file |-> 0, seen |-> <<>>]]
    /\ or_lock = None
    /\ or_results = <<>>
    /\ or_returned = None

\* Every specification starts with every component unused.
AllIdle ==
    /\ BuilderIdle /\ SmapIdle /\ LineIdle
    /\ SfcIdle /\ TplIdle /\ GenIdle /\ ExprIdle /\ RemapIdle
    /\ DiagIdle /\ ScaleIdle /\ OrchIdle

(***************************************************************************)
(* CodeBuilder driven by any sequence of its calls (SpecBuilder), and by   *)
(* push_mapped calls alone with the calls remembered (SpecMapped).         *)
(***************************************************************************)
Strs == {<<>>, <<"x">>, <<"x", "x">>}

Fits(b, s) ==
    /\ Len(b.code) + Len(s) <= MaxCode
    /\ Len(b.source_map) < MaxMappings

PushStr(s) ==
    /\ Fits(builder, s)
    /\ builder' = CodeBuilder_push_str(builder, s)
    /\ UNCHANGED <<calls, notBuilder>>

Push ==
    /\ Fits(builder, <<"x">>)
    /\ builder' = CodeBuilder_push(builder, "x")
    /\ UNCHANGED <<calls, notBuilder>>

Newline ==
    /\ Fits(builder, <<"\n">>)
    /\ builder' = CodeBuilder_newline(builder)
    /\ UNCHANGED <<calls, notBuilder>>

PushMapped(s, o) ==
    /\ Fits(builder, s)
    /\ builder' = CodeBuilder_push_mapped(builder, s, o)
    /\ UNCHANGED <<calls, notBuilder>>

PushWithMapping(s, o, sl) ==
    /\ Fits(builder, s)
    /\ builder' = CodeBuilder_push_with_mapping(builder, s, o, sl)
    /\ UNCHANGED <<calls, notBuilder>>

BuilderInit == AllIdle

BuilderNext ==
    \/ \E s \in Strs : PushStr(s)
    \/ Push
    \/ Newline
    \/ \E s \in Strs, o \in 0..MaxSrc : PushMapped(s, o)
    \/ \E s \in Strs, o \in 0..MaxSrc, sl \in 0..MaxSrc : PushWithMapping(s, o, sl)

SpecBuilder == BuilderInit /\ [][BuilderNext]_vars

\* One push_mapped call, remembered with the builder offset it started at.
MappedCall(s, o) ==
    /\ Len(calls) < MaxCalls
    /\ builder' = CodeBuilder_push_mapped(builder, s, o)
    /\ calls' = Append(calls,
                    [gen_start |-> CodeBuilder_offset(builder),
                     len |-> Len(s), source_offset |-> o])
    /\ UNCHANGED notBuilder

MappedNext == \E s \in Strs, o \in 0..MaxCallSrc : MappedCall(s, o)

SpecMapped == BuilderInit /\ [][MappedNext]_vars

\* C4: in a CodeBuilder state produced only by push_mapped(s, o) calls, every
\* generated offset g inside the range one such call pushed maps back to
\* o + (g - gen_start), gen_start being the builder offset when that call began.
C4_MappedRoundTrip ==
    \A i \in 1..Len(calls) :
        \A g \in calls[i].gen_start .. (calls[i].gen_start + calls[i].len - 1) :
            SourceMap_to_source_offset(builder.source_map, g)
                = Some(calls[i].source_offset + (g - calls[i].gen_start))

\* A two-byte push, an empty push and another two-byte push that maps to a
\* smaller source offset than the first.
C4_Witness ==
    /\ Len(calls) = 3
    /\ calls[1].len = 2 /\ calls[2].len = 0 /\ calls[3].len = 2
    /\ calls[3].gen_start = 2
    /\ calls[3].source_offset < calls[1].source_offset
    /\ SourceMap_to_source_offset(builder.source_map, 3)
           = Some(calls[3].source_offset + 1)

\* C5: after any sequence of CodeBuilder calls the mappings are strictly
\* increasing in generated_offset and their generated ranges do not overlap.
C5_StrictlySorted ==
    LET sm == builder.source_map
    IN  /\ \A i \in 1..(Len(sm) - 1) :
               sm[i].generated_offset < sm[i + 1].generated_offset
        /\ \A i, j \in 1..Len(sm) :
               i < j => \/ sm[i].generated_offset + sm[i].generated_length
                              <= sm[j].generated_offset
                        \/ sm[j].generated_offset + sm[j].generated_length
                              <= sm[i].generated_offset

(***************************************************************************)
(* SourceMap driven directly: add, add_mapping, merge, find_source.        *)
(***************************************************************************)

\* The maps merge() is handed: built, like every SourceMap, through add.
OtherMaps ==
    {SourceMap_add(<<>>, 1, 0, 1),
     SourceMap_add(SourceMap_add(<<>>, 2, 0, 1), 0, 1, 1),
     SourceMap_add(SourceMap_add(<<>>, 0, 0, 3), 1, 1, 1)}

Add(go, so, len) ==
    /\ Len(smap) < MaxMapLen
    /\ smap' = SourceMap_add(smap, go, so, len)
    /\ smap_query' = None
    /\ UNCHANGED notSmap

AddMapping(go, gl, so, sl) ==
    /\ Len(smap) < MaxMapLen
    /\ smap' = SourceMap_add_mapping(smap,
                   SourceMapping_new_with_lengths(go, gl, so, sl))
    /\ smap_query' = None
    /\ UNCHANGED notSmap

Merge(other) ==
    /\ Len(smap) + Len(other) <= MaxMapLen
    /\ smap' = SourceMap_merge(smap, other)
    /\ smap_query' = None
    /\ UNCHANGED notSmap

FindSource(g) ==
    /\ smap_query' = Some([g |-> g, found |-> SourceMap_find_source(smap, g)])
    /\ UNCHANGED <<smap, notSmap>>

SmapInit == AllIdle

SmapNext ==
    \/ \E go \in 0..MaxGen, so \in 0..1, len \in 0..MaxGenLen : Add(go, so, len)
    \/ \E go \in 0..MaxGen, gl \in 0..MaxGenLen, sl \in 0..1 : AddMapping(go, gl, 0, sl)
    \/ \E other \in OtherMaps : Merge(other)
    \/ \E g \in 0..(MaxGen + MaxGenLen) : FindSource(g)

SpecSourceMap == SmapInit /\ [][SmapNext]_vars

\* C6: on a SourceMap built by any sequence of add / add_mapping / merge,
\* find_source(g) returns a mapping only if that mapping covers g, and
\* returns None only if no stored mapping covers g.
C6_FindSourceExact ==
    IsSome(smap_query) =>
        LET q == Unwrap(smap_query)
        IN  /\ IsSome(q.found) => Covers(Unwrap(q.found), q.g)
            /\ q.found = None => \A i \in 1..Len(smap) : ~Covers(smap[i], q.g)

(***************************************************************************)
(* LineIndex: built once from a text, then queried.                        *)
(***************************************************************************)
TextBytes == {"a", "\n", LeadByte, ContByte}

Texts ==
    {s \in UNION {[1..n -> TextBytes] : n \in 0..MaxText} : IsUtf8(s)}

LineIndexNew(text) ==
    /\ li_index = None
    /\ li_text' = text
    /\ li_index' = Some(LineIndex_new(text))
    /\ li_probe' = None
    /\ UNCHANGED notLine

\* index.offset(index.line_col(o)) for a byte offset o of the text.
LineRoundTrip(o) ==
    /\ IsSome(li_index)
    /\ LET index == Unwrap(li_index)
           lc == LineIndex_line_col(index, o)
       IN  li_probe' = Some([offset |-> o, line_col |-> lc,
                             back |-> LineIndex_offset(index, lc)])
    /\ UNCHANGED <<li_text, li_index, notLine>>

LineInit == AllIdle

LineNext ==
    \/ \E text \in Texts : LineIndexNew(text)
    \/ \E o \in 0..Len(li_text) : LineRoundTrip(o)

SpecLineIndex == LineInit /\ [][LineNext]_vars

\* C7: for a LineIndex built from a UTF-8 text and any byte offset o with
\* 0 <= o <= len(text), offset(line_col(o)) is Some(o).
C7_LineColRoundTrip ==
    IsSome(li_probe) => Unwrap(li_probe).back = Some(Unwrap(li_probe).offset)

\* The end of a text whose first line holds a two-byte character: offset 4
\* is line 1, column 1.
C7_Witness ==
    /\ li_text = <<LeadByte, ContByte, "\n", "a">>
    /\ IsSome(li_probe)
    /\ Unwrap(li_probe).offset = 4
    /\ Unwrap(li_probe).line_col = LineCol_new(1, 1)
    /\ Unwrap(li_probe).back = Some(4)

(***************************************************************************)
(* parse_sfc applied to component files: every concatenation of a few      *)
(* fragments of markup, and every truncation of one at a character         *)
(* boundary.                                                               *)
(***************************************************************************)
RECURSIVE Concats(_, _)
Concats(fragments, n) ==
    IF n = 0 THEN {<<>>}
    ELSE LET shorter == Concats(fragments, n - 1)
         IN  shorter \cup {s \o f : s \in shorter, f \in fragments}

\* The prefixes of the members of S that are themselves UTF-8.
Truncations(S) ==
    {t \in UNION {{SubSeq(s, 1, k) : k \in 0..Len(s)} : s \in S} : IsUtf8(t)}

SfcFragments ==
    {<<"<", "a", ">">>, <<"<", "/", "a", ">">>, <<"<", "a", " ">>,
     <<"b", "=", "\"", "c", "\"">>, <<"b", "=", "'">>, <<"x">>,
     <<LeadByte, ContByte>>, <<" ">>, <<"<", "!", "-", "-">>,
     <<"-", "-", ">">>, <<"/", ">">>, <<"<">>}

SfcSources == Truncations(Concats(SfcFragments, MaxSfcFrags))

ParseSfc(source) ==
    /\ sfc_out = None
    /\ sfc_source' = source
    /\ sfc_out' = Some(parse_sfc(source))
    /\ UNCHANGED <<sfc_blocks, notSfc>>

SfcInit == AllIdle

SfcNext == \E source \in SfcSources : ParseSfc(source)

SpecSfc == SfcInit /\ [][SfcNext]_vars

\* C8: parse_sfc returns a parsed component, without panicking, for every
\* UTF-8 input: also when the block content holds multi-byte characters at
\* any byte position relative to the end-tag scan window, and when the
\* input is truncated inside a tag, attribute, quoted value, comment or block.
C8_ParseSfcTotal ==
    IsSome(sfc_out) => Unwrap(sfc_out).kind = "ok"

(***************************************************************************)
(* SpecSfcBlocks: parse_sfc applied to component files assembled from      *)
(* whole blocks, so that what each block is and where it lies is known.    *)
(***************************************************************************)
\* A block of a component file: its kind, opening tag, content, closing
\* tag and the text between it and the next block.
SfcBlockText(kind, open, content, close, gap) ==
    [kind |-> kind, open |-> open, content |-> content, close |-> close,
     gap |-> gap]

ClosedBlocks ==
    {SfcBlockText("template", <<"<", "t", "e", "m", "p", "l", "a", "t", "e", ">">>, <<"a">>, <<"<", "/", "t", "e", "m", "p", "l", "a", "t", "e", ">">>, <<>>),
     SfcBlockText("template", <<"<", "t", "e", "m", "p", "l", "a", "t", "e", " ", "l", "a", "n", "g", "=", "\"", "x", "\"", ">">>, <<"b", "b">>, <<"<", "/", "t", "e", "m", "p", "l", "a", "t", "e", ">">>, <<"\n">>),
     SfcBlockText("script", <<"<", "s", "c", "r", "i", "p", "t", ">">>, <<"c">>, <<"<", "/", "s", "c", "r", "i", "p", "t", ">">>, <<>>),
     SfcBlockText("script", <<"<", "s", "c", "r", "i", "p", "t", " ", "l", "a", "n", "g", "=", "\"", "t", "s", "\"", ">">>, <<"d", "d">>, <<"<", "/", "s", "c", "r", "i", "p", "t", ">">>, <<>>),
     SfcBlockText("script setup", <<"<", "s", "c", "r", "i", "p", "t", " ", "s", "e", "t", "u", "p", ">">>, <<"e">>, <<"<", "/", "s", "c", "r", "i", "p", "t", ">">>, <<>>),
     SfcBlockText("script setup", <<"<", "s", "c", "r", "i", "p", "t", " ", "s", "e", "t", "u", "p", " ", "g", "e", "n", "e", "r", "i", "c", "=", "\"", "T", "\"", ">">>, <<"f", "f">>, <<"<", "/", "s", "c", "r", "i", "p", "t", ">">>, <<>>),
     SfcBlockText("style", <<"<", "s", "t", "y", "l", "e", ">">>, <<"g">>, <<"<", "/", "s", "t", "y", "l", "e", ">">>, <<>>),
     SfcBlockText("style", <<"<", "S", "T", "Y", "L", "E", " ", "s", "c", "o", "p", "e", "d", ">">>, <<"h", "h">>, <<"<", "/", "S", "T", "Y", "L", "E", ">">>, <<>>),
     SfcBlockText("custom", <<"<", "i", "1", "8", "n", ">">>, <<"j">>, <<"<", "/", "i", "1", "8", "n", ">">>, <<" ">>),
     SfcBlockText("custom", <<"<", "d", "o", "c", "s", "/", ">">>, <<>>, <<>>, <<>>)}

\* Blocks the file ends inside of.
OpenBlocks ==
    {SfcBlockText("template", <<"<", "t", "e", "m", "p", "l", "a", "t", "e", ">">>, <<"k">>, <<>>, <<>>),
     SfcBlockText("style", <<"<", "s", "t", "y", "l", "e">>, <<>>, <<>>, <<>>)}

\* The block lists: whole blocks, the last of which may be left open.
RECURSIVE ClosedLists(_)
ClosedLists(n) ==
    IF n = 0 THEN {<<>>}
    ELSE LET shorter == ClosedLists(n - 1)
         IN  shorter \cup {Append(bs, b) : bs \in shorter, b \in ClosedBlocks}

BlockLists ==
    ClosedLists(MaxBlocks)
        \cup {Append(bs, b) : bs \in ClosedLists(MaxBlocks - 1), b \in OpenBlocks}

BlockTag(b) == b.open \o b.content \o b.close

RECURSIVE Assemble(_)
Assemble(bs) ==
    IF bs = <<>> THEN <<>>
    ELSE BlockTag(Head(bs)) \o Head(bs).gap \o Assemble(Tail(bs))

ParseBlocks(bs) ==
    /\ sfc_out = None
    /\ bs # <<>>
    /\ sfc_blocks' = bs
    /\ sfc_source' = Assemble(bs)
    /\ sfc_out' = Some(parse_sfc(Assemble(bs)))
    /\ UNCHANGED notSfc

BlocksInit == AllIdle

BlocksNext == \E bs \in BlockLists : ParseBlocks(bs)

SpecSfcBlocks == BlocksInit /\ [][BlocksNext]_vars

\* Where the i-th block of the assembled file starts.
BlockStart(bs, i) == Len(Assemble(SubSeq(bs, 1, i - 1)))

\* The indices of the blocks of a kind, and the first of them.
BlocksOfKind(bs, kind) == {i \in 1..Len(bs) : bs[i].kind = kind}

\* The same indices in source order.
KindOrder(bs, kind) ==
    SelectSeq([i \in 1..Len(bs) |-> i], LAMBDA i : bs[i].kind = kind)

\* The parsed block is the i-th block of the file: its span, content span
\* and content are those of the text it was assembled from.
IsBlockAt(block, bs, i) ==
    /\ block.span = [start |-> BlockStart(bs, i),
                     end |-> BlockStart(bs, i) + Len(BlockTag(bs[i]))]
    /\ block.content_span =
           [start |-> BlockStart(bs, i) + Len(bs[i].open),
            end |-> BlockStart(bs, i) + Len(bs[i].open) + Len(bs[i].content)]
    /\ block.content = bs[i].content

\* The slot of a once-only kind holds the first block of that kind, exactly
\* as parsing the file up to and including that block leaves it.
HoldsFirst(slot, field, bs, kind) ==
    IF BlocksOfKind(bs, kind) = {}
    THEN slot = None
    ELSE Bind(SetMin(BlocksOfKind(bs, kind)), LAMBDA first :
         /\ IsSome(slot)
         /\ IsBlockAt(Unwrap(slot).block, bs, first)
         /\ slot = parse_sfc(Assemble(SubSeq(bs, 1, first))).sfc[field])

\* The list holds every block of a repeatable kind, in source order.
HoldsAll(list, bs, kind) ==
    /\ Len(list) = Len(KindOrder(bs, kind))
    /\ \A n \in 1..Len(list) : IsBlockAt(list[n].block, bs, KindOrder(bs, kind)[n])

\* C11: the parsed component holds the first template, the first non-setup
\* script and the first script-setup block of the file unchanged (span,
\* content span, content, attributes), whatever blocks of the same kind
\* follow, and holds all style and all custom blocks in source order.
C11_FirstBlockKept ==
    (IsSome(sfc_out) /\ sfc_blocks # <<>> /\ Unwrap(sfc_out).kind = "ok") =>
        /\ HoldsFirst(Unwrap(sfc_out).sfc.template, "template", sfc_blocks, "template")
        /\ HoldsFirst(Unwrap(sfc_out).sfc.script, "script", sfc_blocks, "script")
        /\ HoldsFirst(Unwrap(sfc_out).sfc.script_setup, "script_setup",
                      sfc_blocks, "script setup")
        /\ HoldsAll(Unwrap(sfc_out).sfc.styles, sfc_blocks, "style")
        /\ HoldsAll(Unwrap(sfc_out).sfc.custom_blocks, sfc_blocks, "custom")

\* A file with two template blocks of different content and a style block
\* has been parsed.
C11_Witness ==
    /\ IsSome(sfc_out)
    /\ Unwrap(sfc_out).kind = "ok"
    /\ \E i, j \in BlocksOfKind(sfc_blocks, "template") :
           i < j /\ sfc_blocks[i].content # sfc_blocks[j].content
    /\ BlocksOfKind(sfc_blocks, "style") # {}

\* The later occurrences of the once-only kinds in the file.
LaterOccurrences(bs) ==
    UNION {BlocksOfKind(bs, kind) \ {SetMin(BlocksOfKind(bs, kind))} :
              kind \in {k \in {"template", "script", "script setup"} :
                           BlocksOfKind(bs, k) # {}}}

\* What the caller of parse_sfc receives: ParseResult<Sfc> is
\* Result<Sfc, ParseError>, so Ok carries the component and nothing else.
ParseResult(out) ==
    IF out.kind = "ok" THEN [kind |-> "Ok", value |-> out.sfc]
    ELSE [kind |-> "panic"]

\* The errors found in a value returned by parse_sfc.
ReturnedErrors(result) ==
    IF result.kind = "Ok" /\ "errors" \in DOMAIN result.value
    THEN result.value.errors
    ELSE IF result.kind = "Err" THEN <<result.error>>
    ELSE <<>>

\* C12: the value parse_sfc returns carries, alongside the component, one
\* DuplicateBlock error for each later template, script or script-setup
\* block of the file.
C12_DuplicateErrorsReturned ==
    (IsSome(sfc_out) /\ sfc_blocks # <<>> /\ Unwrap(sfc_out).kind = "ok") =>
        Bind(ReturnedErrors(ParseResult(Unwrap(sfc_out))), LAMBDA errs :
            /\ Len(errs) = Cardinality(LaterOccurrences(sfc_blocks))
            /\ \A n \in 1..Len(errs) : errs[n].kind = "DuplicateBlock")

\* The content spans of every block of a parsed component.
ContentSpans(sfc) ==
    (IF IsSome(sfc.template)
     THEN <<Unwrap(sfc.template).block.content_span>> ELSE <<>>)
    \o (IF IsSome(sfc.script)
        THEN <<Unwrap(sfc.script).block.content_span>> ELSE <<>>)
    \o (IF IsSome(sfc.script_setup)
        THEN <<Unwrap(sfc.script_setup).block.content_span>> ELSE <<>>)
    \o [n \in 1..Len(sfc.styles) |-> sfc.styles[n].block.content_span]
    \o [n \in 1..Len(sfc.custom_blocks) |-> sfc.custom_blocks[n].block.content_span]

\* C13: the content spans of all blocks of the returned component are
\* pairwise disjoint and each lies within [0, len(source)].
C13_ContentSpansDisjoint ==
    (IsSome(sfc_out) /\ sfc_blocks # <<>> /\ Unwrap(sfc_out).kind = "ok") =>
        Bind(ContentSpans(Unwrap(sfc_out).sfc), LAMBDA spans :
            /\ \A n \in 1..Len(spans) :
                   /\ 0 <= spans[n].start
                   /\ spans[n].start <= spans[n].end
                   /\ spans[n].end <= Len(sfc_source)
            /\ \A n, m \in 1..Len(spans) :
                   n < m => \/ spans[n].end <= spans[m].start
                            \/ spans[m].end <= spans[n].start)

\* A file of three blocks, one of them self-closing and the last left
\* open, has been parsed into a component with three content spans.
C13_Witness ==
    /\ IsSome(sfc_out)
    /\ Unwrap(sfc_out).kind = "ok"
    /\ Len(ContentSpans(Unwrap(sfc_out).sfc)) = 3
    /\ \E i \in 1..Len(sfc_blocks) : sfc_blocks[i].content # <<>>
    /\ \E i \in 1..Len(sfc_blocks) : sfc_blocks[i].open = <<"<", "d", "o", "c", "s", "/", ">">>
    /\ sfc_blocks[Len(sfc_blocks)] \in OpenBlocks

(***************************************************************************)
(* parse_template applied to template texts: every concatenation of a few  *)
(* fragments of template markup.                                           *)
(***************************************************************************)
TplFragments ==
    {<<"<", "p", ">">>, <<"<", "/", "p", ">">>, <<"<", "/", "q", ">">>, <<"<", "b", "r", ">">>, <<"<", "/", "b", "r", ">">>, <<"{", "{", "a", "}", "}">>, <<"t">>, <<"<">>,
     <<"<", "i", " ", "v", "-", "f", "o", "r", "=", "\"", "x", " ", "i", "n", " ", "y", "\"", ">">>, <<"<", "i", " ", "v", "-", "f", "o", "r", "=", "\"", "x", "\"", ">">>, <<"<", "i", " ", "v", "-", "f", "o", "r", "=", "\"", "(", "a", ",", "b", ",", "c", ",", "d", ")", " ", "i", "n", " ", "y", "\"", ">">>,
     <<"<", "/", "i", ">">>}

TplSources == Concats(TplFragments, MaxTplFrags)

ParseTemplate(source) ==
    /\ tpl_out = None
    /\ tpl_source' = source
    /\ tpl_out' = Some(parse_template(source))
    /\ UNCHANGED <<tpl_attrs, notTpl>>

TplInit == AllIdle

TplNext == \E source \in TplSources : ParseTemplate(source)

SpecTpl == TplInit /\ [][TplNext]_vars

\* C9: parse_template terminates on every input: no iteration of the
\* parse_children loop ends without having consumed a character or left the
\* loop, also when the cursor is at a closing tag that does not match the
\* element being parsed, appears at top level, or follows a void element.
C9_ParseTemplateTerminates ==
    IsSome(tpl_out) => Unwrap(tpl_out).kind # "hang"

\* C10: parse_template never fails for the whole document: a v-for clause
\* without " in " or " of ", a v-for with more than three aliases, or a `<`
\* that no tag name follows does not make it return an error.
C10_ParseTemplateNeverFails ==
    IsSome(tpl_out) => Unwrap(tpl_out).kind # "err"

(***************************************************************************)
(* SpecGen: one component file is turned into its synthetic TypeScript     *)
(* file, as ts-runner's generate_virtual_files does for each .vue file.    *)
(***************************************************************************)
\* What the template block of a generated component is made of.
GenFragments ==
    {<<"{", "{", "a", "}", "}">>, <<"{", "{", " ", "b", " ", "}", "}">>, <<"{", "{", "M", "a", "t", "h", "}", "}">>, <<"t">>, <<"<", "p", ">">>, <<"<", "/", "p", ">">>, <<"<", "p", " ", ":", "k", "=", "\"", "a", "\"", ">">>,
     <<"<", "C", " ", "@", "e", "=", "\"", "h", "\"", ">">>, <<"<", "/", "C", ">">>, <<"<", "i", " ", "v", "-", "f", "o", "r", "=", "\"", "x", " ", "i", "n", " ", "y", "\"", ">">>, <<"<", "i", " ", "v", "-", "i", "f", "=", "\"", "a", "\"", ">">>, <<"<", "/", "i", ">">>}

\* A component file: an optional plain script block, then the template.
GenSources ==
    {script \o <<"<", "t", "e", "m", "p", "l", "a", "t", "e", ">">> \o body \o <<"<", "/", "t", "e", "m", "p", "l", "a", "t", "e", ">">> :
        script \in {<<>>, <<"<", "s", "c", "r", "i", "p", "t", ">", "s", "<", "/", "s", "c", "r", "i", "p", "t", ">", "\n">>},
        body \in Concats(GenFragments, MaxGenFrags)}

\* generate_virtual_files, for one file: parse, then generate.  A parse
\* that fails leaves the file without a synthetic file.
GenerateVirtualFile(source) ==
    /\ gen_out = None
    /\ gen_source' = source
    /\ gen_out' =
           Bind(parse_sfc(source), LAMBDA parsed :
           IF parsed.kind = "ok"
           THEN Some([sfc |-> parsed.sfc, result |-> generate(parsed.sfc)])
           ELSE Some([sfc |-> parsed.sfc, result |-> [kind |-> "skipped"]]))
    /\ UNCHANGED notGen

GenInit == AllIdle

GenNext == \E source \in GenSources : GenerateVirtualFile(source)

SpecGen == GenInit /\ [][GenNext]_vars

\* The byte offset, in the component file, of the text of a template
\* expression: the template block's content starts at content_span.start
\* and the expression at span.start within that content.
FileOffsetOf(sfc, expr) ==
    Unwrap(sfc.template).block.content_span.start + expr.span.start

\* C1: every template expression that generate() emits is mapped to the
\* byte offset of its text in the component file: to_source_offset of the
\* first generated character of the expression is the template block's
\* content_span.start plus the expression's offset within the template.
C1_TemplateExprMapsToFile ==
    (IsSome(gen_out) /\ Unwrap(gen_out).result.kind = "ok") =>
        \A i \in 1..Len(Unwrap(gen_out).result.emitted) :
            Bind(Unwrap(gen_out).result.emitted[i], LAMBDA em :
                em.wrapped # <<>> =>
                    SourceMap_to_source_offset(
                        Unwrap(gen_out).result.source_map, em.gen_start)
                    = Some(FileOffsetOf(Unwrap(gen_out).sfc, em.expr)))

(***************************************************************************)
(* SpecRemap: a synthetic file is written and registered with the          *)
(* remapper, the type checker reports diagnostics, remap_all rewrites      *)
(* them.                                                                   *)
(***************************************************************************)
VirtualFile == "App.vue.ts"
OriginalFile == "App.vue"
OtherFile == "util.ts"

\* The component file every synthetic file of this specification is
\* generated from: three lines.
OriginalContent == <<"a", "b", "\n", "c", "d", "\n", "e">>

\* The synthetic files: unmapped text, one piece of the component file
\* pushed with its offset in that file, unmapped text, written through a
\* CodeBuilder.
RemapUnits ==
    {CodeBuilder_push_str(
         CodeBuilder_push_mapped(
             CodeBuilder_push_str(CodeBuilder_new, pre),
             Slice(OriginalContent, source_offset, source_offset + length),
             source_offset),
         post) :
        pre \in {<<>>, <<"x">>, <<"x", "\n">>, <<"\n", "\n">>},
        source_offset \in {0, 3, 4},
        length \in {1, 2},
        post \in {<<>>, <<";", "\n">>}}

\* The synthetic file is written and registered.
Register(unit) ==
    /\ VirtualFile \notin DOMAIN rm_files
    /\ rm_files' = HashMap_insert(rm_files, VirtualFile, unit.code)
    /\ rm_reg' = DiagnosticRemapper_register(rm_reg, VirtualFile, OriginalFile,
                                             unit.source_map, OriginalContent)
    /\ UNCHANGED <<rm_input, rm_diags, rm_done, notRemap>>

\* The type checker reports a diagnostic at byte offset g of the synthetic
\* file, as the 1-indexed line and column of g.
ReportVirtual(g) ==
    /\ ~rm_done
    /\ VirtualFile \in DOMAIN rm_files
    /\ Len(rm_input) < MaxDiags
    /\ g <= Len(rm_files[VirtualFile])
    /\ Bind(LineIndex_line_col(LineIndex_new(rm_files[VirtualFile]), g),
            LAMBDA lc :
            Bind(TsDiagnostic(Some(VirtualFile), Some(lc.line + 1), Some(lc.col + 1)),
                 LAMBDA d :
                 /\ rm_input' = Append(rm_input, d)
                 /\ rm_diags' = Append(rm_diags, d)))
    /\ UNCHANGED <<rm_files, rm_reg, rm_done, notRemap>>

\* The type checker reports a diagnostic that is not on the synthetic file:
\* on a plain TypeScript file, or with no file (and no position) at all.
ReportOther(file) ==
    /\ ~rm_done
    /\ VirtualFile \in DOMAIN rm_files
    /\ Len(rm_input) < MaxDiags
    /\ Bind(IF file = None THEN TsDiagnostic(None, None, None)
            ELSE TsDiagnostic(file, Some(1), Some(1)), LAMBDA d :
            /\ rm_input' = Append(rm_input, d)
            /\ rm_diags' = Append(rm_diags, d))
    /\ UNCHANGED <<rm_files, rm_reg, rm_done, notRemap>>

RemapAll ==
    /\ ~rm_done
    /\ rm_input # <<>>
    /\ rm_diags' = DiagnosticRemapper_remap_all(rm_reg, rm_diags)
    /\ rm_done' = TRUE
    /\ UNCHANGED <<rm_files, rm_reg, rm_input, notRemap>>

RemapInit == AllIdle

RemapNext ==
    \/ \E unit \in RemapUnits : Register(unit)
    \/ \E g \in 0..MaxVirtualLen : ReportVirtual(g)
    \/ \E file \in {None, Some(OtherFile)} : ReportOther(file)
    \/ RemapAll

SpecRemap == RemapInit /\ [][RemapNext]_vars

\* The i-th reported diagnostic is on a registered synthetic file and has
\* a line and a column.
OnVirtualFile(i) ==
    /\ IsSome(rm_input[i].file)
    /\ Unwrap(rm_input[i].file) \in DOMAIN rm_reg.virtual_to_original
    /\ IsSome(rm_input[i].line)
    /\ IsSome(rm_input[i].column)

\* The byte offset, in the synthetic file, of the i-th reported
\* diagnostic: its 1-indexed line and column taken through a line index of
\* the synthetic file's text.
GeneratedOffset(i) ==
    LineIndex_offset(LineIndex_new(rm_files[Unwrap(rm_input[i].file)]),
                     LineCol_new(Unwrap(rm_input[i].line) - 1,
                                 Unwrap(rm_input[i].column) - 1))

\* The source offset the synthetic file's source map gives for the i-th
\* reported diagnostic, None when no mapping covers it.
MappedSourceOffset(i) ==
    IF IsSome(GeneratedOffset(i))
    THEN SourceMap_to_source_offset(
             rm_reg.source_maps[Unwrap(rm_input[i].file)],
             Unwrap(GeneratedOffset(i)))
    ELSE None

\* C2: after remap_all, a diagnostic reported on a registered synthetic
\* file at a line/column whose generated offset g is covered by the source
\* map carries the original file and the 1-indexed line/column of
\* to_source_offset(g) in the original file's line index.
C2_RemapThroughSourceMap ==
    rm_done =>
        \A i \in 1..Len(rm_input) :
            (OnVirtualFile(i) /\ IsSome(MappedSourceOffset(i))) =>
                Bind(LineIndex_line_col(
                         rm_reg.line_indices[
                             rm_reg.virtual_to_original[Unwrap(rm_input[i].file)]],
                         Unwrap(MappedSourceOffset(i))), LAMBDA expected :
                    /\ rm_diags[i].file =
                           Some(rm_reg.virtual_to_original[Unwrap(rm_input[i].file)])
                    /\ rm_diags[i].line = Some(expected.line + 1)
                    /\ rm_diags[i].column = Some(expected.col + 1))

\* C3: after remap_all, a diagnostic reported on a registered synthetic
\* file at a generated offset that no source-map entry covers is gone:
\* nothing at its place in the list carries the original file's path.
C3_UnmappedDiscarded ==
    rm_done =>
        \A i \in 1..Len(rm_input) :
            (OnVirtualFile(i) /\ MappedSourceOffset(i) = None) =>
                \/ i > Len(rm_diags)
                \/ rm_diags[i].file #
                       Some(rm_reg.virtual_to_original[Unwrap(rm_input[i].file)])

(***************************************************************************)
(* SpecTplTree: parse_template applied to a template whose first element   *)
(* is written out attribute by attribute.                                  *)
(***************************************************************************)
\* An attribute as written in the opening tag: its name and, when there is
\* one, its double-quoted value.
TplAttr(name, value) == [name |-> name, value |-> value]

TplAttrChoices ==
    {TplAttr(<<"v", "-", "f", "o", "r">>, Some(<<"x", " ", "i", "n", " ", "y">>)),
     TplAttr(<<"v", "-", "f", "o", "r">>, Some(<<"i", "t", " ", "i", "n", " ", "l", "i", "s", "t">>)),
     TplAttr(<<":", "k", "e", "y">>, Some(<<"x">>)),
     TplAttr(<<":", "p">>, Some(<<"a">>)),
     TplAttr(<<"v", "-", "b", "i", "n", "d", ":", "k">>, Some(<<"a">>)),
     TplAttr(<<"@", "e">>, Some(<<"h">>)),
     TplAttr(<<"v", "-", "o", "n", ":", "e">>, Some(<<"h">>)),
     TplAttr(<<"v", "-", "i", "f">>, Some(<<"c">>)),
     TplAttr(<<"i", "d">>, Some(<<"s">>)),
     TplAttr(<<"d", "i", "s", "a", "b", "l", "e", "d">>, None)}

RECURSIVE TplAttrLists(_)
TplAttrLists(n) ==
    IF n = 0 THEN {<<>>}
    ELSE LET shorter == TplAttrLists(n - 1)
         IN  shorter \cup {Append(as, a) : as \in shorter, a \in TplAttrChoices}

TplAttrText(a) ==
    <<" ">> \o a.name \o (IF IsSome(a.value) THEN <<"=", "\"">> \o Unwrap(a.value) \o <<"\"">> ELSE <<>>)

RECURSIVE TplAttrsText(_)
TplAttrsText(as) ==
    IF as = <<>> THEN <<>> ELSE TplAttrText(Head(as)) \o TplAttrsText(Tail(as))

\* What follows the opening tag of the first element.
TplBodies ==
    {<<"<", "/", "i", ">">>, <<"{", "{", "x", "}", "}", "<", "/", "i", ">", "t">>, <<"<", "b", " ", "v", "-", "f", "o", "r", "=", "\"", "x", " ", "i", "n", " ", "y", "\"", " ", ":", "k", "e", "y", "=", "\"", "x", "\"", ">", "t", "<", "/", "b", ">", "<", "/", "i", ">">>}

ParseElement(as, body) ==
    /\ tpl_out = None
    /\ tpl_attrs' = as
    /\ tpl_source' = <<"<", "i">> \o TplAttrsText(as) \o <<">">> \o body
    /\ tpl_out' = Some(parse_template(<<"<", "i">> \o TplAttrsText(as) \o <<">">> \o body))
    /\ UNCHANGED notTpl

TreeInit == AllIdle

TreeNext ==
    \E as \in TplAttrLists(MaxAttrs), body \in TplBodies : ParseElement(as, body)

SpecTplTree == TreeInit /\ [][TreeNext]_vars

\* The nodes directly below a node of the template tree.
NodeChildren(node) ==
    IF node.type \in {"Element", "For", "Template"} THEN node.children
    ELSE IF node.type = "SlotOutlet" THEN node.fallback
    ELSE IF node.type = "If"
    THEN IF node.branches = <<>> THEN <<>> ELSE node.branches[1].children
    ELSE <<>>

\* Every node of a list of trees, parents before children.
RECURSIVE TreeNodes(_)
TreeNodes(nodes) ==
    IF nodes = <<>> THEN <<>>
    ELSE <<Head(nodes)>> \o TreeNodes(NodeChildren(Head(nodes)))
             \o TreeNodes(Tail(nodes))

\* The alias and the source of the v-for clauses the templates use.
ForClause(value) ==
    IF value = <<"x", " ", "i", "n", " ", "y">> THEN [alias |-> <<"x">>, source |-> <<"y">>]
    ELSE [alias |-> <<"i", "t">>, source |-> <<"l", "i", "s", "t">>]

\* The v-for attributes and the :key attributes written on the first
\* element.
WrittenFors == SelectSeq(tpl_attrs, LAMBDA a : a.name = <<"v", "-", "f", "o", "r">>)
WrittenKeys == SelectSeq(tpl_attrs, LAMBDA a : a.name = <<":", "k", "e", "y">>)

\* C14: for a template element carrying v-for="x in y", the tree returned
\* by parse_template has no Element node that still bears the `for`
\* directive; a For node wraps the former element as its single child, with
\* value.pattern "x", source.content "y", and key_attr copied from the
\* element's :key prop when there is one.
C14_ForLifted ==
    (IsSome(tpl_out) /\ tpl_attrs # <<>> /\ Unwrap(tpl_out).kind = "ok") =>
        Bind(TreeNodes(Unwrap(tpl_out).ast.children), LAMBDA nodes :
            /\ \A n \in 1..Len(nodes) :
                   nodes[n].type = "Element" =>
                       FindNamed(nodes[n].directives, <<"f", "o", "r">>) = None
            /\ \A n \in 1..Len(nodes) :
                   nodes[n].type = "For" =>
                       /\ Len(nodes[n].children) = 1
                       /\ nodes[n].children[1].type = "Element"
            /\ WrittenFors # <<>> =>
                   /\ nodes[1].type = "For"
                   /\ nodes[1].value.pattern =
                          ForClause(Unwrap(WrittenFors[1].value)).alias
                   /\ nodes[1].source.content =
                          ForClause(Unwrap(WrittenFors[1].value)).source
                   /\ nodes[1].children[1].tag = <<"i">>
                   /\ nodes[1].children[1].span = nodes[1].span
                   /\ nodes[1].key_attr =
                          IF WrittenKeys = <<>> THEN None
                          ELSE Some(FindNamed(nodes[1].children[1].props, <<"k", "e", "y">>)[1].value)
                   /\ WrittenKeys # <<>> =>
                          Unwrap(nodes[1].key_attr).content =
                              Unwrap(WrittenKeys[1].value))

\* An element written with v-for="x in y" and :key="x", holding a nested
\* v-for element, has been parsed.
C14_Witness ==
    /\ IsSome(tpl_out)
    /\ Unwrap(tpl_out).kind = "ok"
    /\ tpl_attrs = <<TplAttr(<<"v", "-", "f", "o", "r">>, Some(<<"x", " ", "i", "n", " ", "y">>)), TplAttr(<<":", "k", "e", "y">>, Some(<<"x">>))>>
    /\ Len(SelectSeq(TreeNodes(Unwrap(tpl_out).ast.children),
                     LAMBDA n : n.type = "For")) = 2

\* The first element of the tree, below the For or If node it was lifted
\* into.
RECURSIVE FirstElement(_)
FirstElement(node) ==
    IF node.type \in {"For", "If"} THEN FirstElement(NodeChildren(node)[1])
    ELSE node

\* The name a prop or an event listener is stored under.
BoundName(name) ==
    IF IsSome(StripPrefix(name, <<":">>)) THEN Unwrap(StripPrefix(name, <<":">>))
    ELSE IF IsSome(StripPrefix(name, <<"v", "-", "b", "i", "n", "d", ":">>)) THEN Unwrap(StripPrefix(name, <<"v", "-", "b", "i", "n", "d", ":">>))
    ELSE IF IsSome(StripPrefix(name, <<"@">>)) THEN Unwrap(StripPrefix(name, <<"@">>))
    ELSE Unwrap(StripPrefix(name, <<"v", "-", "o", "n", ":">>))

IsPropName(name) ==
    IsSome(StripPrefix(name, <<":">>)) \/ IsSome(StripPrefix(name, <<"v", "-", "b", "i", "n", "d", ":">>))

IsEventName(name) ==
    IsSome(StripPrefix(name, <<"@">>)) \/ IsSome(StripPrefix(name, <<"v", "-", "o", "n", ":">>))

\* C15: an attribute written as `:name` or `v-bind:name` with a value is in
\* the element's props, one written as `@name` or `v-on:name` with a value
\* is in its event listeners, and neither long form is in its directives.
C15_BindOnClassified ==
    (IsSome(tpl_out) /\ tpl_attrs # <<>> /\ Unwrap(tpl_out).kind = "ok") =>
        Bind(FirstElement(Unwrap(tpl_out).ast.children[1]), LAMBDA el :
            \A n \in 1..Len(tpl_attrs) :
                Bind(tpl_attrs[n], LAMBDA a :
                    /\ (IsPropName(a.name) /\ IsSome(a.value)) =>
                           \E k \in 1..Len(el.props) :
                               /\ el.props[k].name = BoundName(a.name)
                               /\ el.props[k].value.content = Unwrap(a.value)
                    /\ (IsEventName(a.name) /\ IsSome(a.value)) =>
                           \E k \in 1..Len(el.events) :
                               /\ el.events[k].name = BoundName(a.name)
                               /\ el.events[k].handler.content = Unwrap(a.value)
                    /\ (IsPropName(a.name) \/ IsEventName(a.name)) =>
                           \A k \in 1..Len(el.directives) :
                               el.directives[k].name \notin {<<"b","i","n","d">>, <<"o","n">>}))

(***************************************************************************)
(* SpecScope: generate() applied to components whose templates hold loops, *)
(* slot templates, and native, unrecognised and component elements.        *)
(***************************************************************************)
ScopeFragments ==
    {<<"{", "{", "x", "}", "}">>,
     <<"{", "{", " ", "m", "s", "g", " ", "}", "}">>,
     <<"<", "i", " ", "v", "-", "f", "o", "r", "=", "\"", "x", " ", "i", "n", " ", "y", "\"", ">">>,
     <<"<", "/", "i", ">">>,
     <<"<", "i", " ", "v", "-", "f", "o", "r", "=", "\"", "(", "v", ",", " ", "k", ")", " ", "i", "n", " ", "y", "\"", ">", "<", "b", " ", "v", "-", "f", "o", "r", "=", "\"", "x", " ", "i", "n", " ", "v", "\"", ">", "{", "{", "x", "}", "}", "<", "/", "b", ">", "{", "{", "x", "}", "}", "<", "/", "i", ">">>,
     <<"<", "t", "e", "m", "p", "l", "a", "t", "e", " ", "#", "d", "=", "\"", "{", " ", "x", " ", "}", "\"", ">">>,
     <<"<", "f", "o", "o", " ", ":", "k", "=", "\"", "x", "\"", "/", ">">>,
     <<"<", "p", " ", ":", "k", "=", "\"", "x", "\"", " ", "@", "e", "=", "\"", "x", "\"", "/", ">">>,
     <<"<", "C", " ", "@", "e", "=", "\"", "x", "\"", "/", ">">>}

\* A component file: an optional script-setup block declaring `msg`, then
\* the template.
ScopeSources ==
    {setup \o <<"<", "t", "e", "m", "p", "l", "a", "t", "e", ">">> \o body \o <<"<", "/", "t", "e", "m", "p", "l", "a", "t", "e", ">">> :
        setup \in {<<>>, <<"<", "s", "c", "r", "i", "p", "t", " ", "s", "e", "t", "u", "p", ">", "c", "o", "n", "s", "t", " ", "m", "s", "g", " ", "=", " ", "r", "e", "f", "(", "'", "H", "e", "l", "l", "o", "'", ")", "<", "/", "s", "c", "r", "i", "p", "t", ">">>},
        body \in Concats(ScopeFragments, MaxScopeFrags)}

ScopeInit == AllIdle

ScopeNext == \E source \in ScopeSources : GenerateVirtualFile(source)

SpecScope == ScopeInit /\ [][ScopeNext]_vars

\* The template tree and the log of emitted expressions of a generate()
\* that returned.
Generated == IsSome(gen_out) /\ Unwrap(gen_out).result.kind = "ok"
GeneratedTemplate ==
    /\ Generated
    /\ IsSome(Unwrap(gen_out).result.template)
    /\ Unwrap(Unwrap(gen_out).result.template).kind = "ok"
TemplateNodes == TreeNodes(Unwrap(Unwrap(gen_out).result.template).ast.children)
Emitted == Unwrap(gen_out).result.emitted

\* The names a For node binds, in the order generate_for adds them.
ForAliases(n) ==
    <<n.value.pattern>>
        \o (IF IsSome(n.key) THEN <<Unwrap(n.key).pattern>> ELSE <<>>)
        \o (IF IsSome(n.index) THEN <<Unwrap(n.index).pattern>> ELSE <<>>)

SpanWithin(inner, outer) == outer.start <= inner.start /\ inner.end <= outer.end

\* The aliases of the For nodes an expression lies in, outermost first.
RECURSIVE EnclosingAliases(_, _)
EnclosingAliases(nodes, expr) ==
    IF nodes = <<>> THEN <<>>
    ELSE (IF Head(nodes).type = "For" /\ SpanWithin(expr.span, Head(nodes).span)
          THEN ForAliases(Head(nodes)) ELSE <<>>)
             \o EnclosingAliases(Tail(nodes), expr)

\* A generator state about to walk a node with the given names in scope.
WalkFrom(stack) ==
    [builder |-> CodeBuilder_new,
     ctx |-> AddVars(CodegenContext_new, stack, "VFor"),
     emitted |-> <<>>]

OuterStacks == {<<>>, <<<<"x">>>>, <<<<"q">>, <<"v">>>>}

\* C16: while generate_template walks a For node its aliases are on the
\* scope stack for every expression emitted below it, and after the node
\* the scope stack is exactly what it was before, also for nested For
\* nodes: each emitted expression sees exactly the aliases of the For nodes
\* it lies in, outermost first, and generate_for applied to any For node of
\* the tree returns the scope stack it was given.
C16_ForScopeBalanced ==
    GeneratedTemplate =>
        Bind(TemplateNodes, LAMBDA nodes :
            /\ \A i \in 1..Len(Emitted) :
                   Emitted[i].scope = EnclosingAliases(nodes, Emitted[i].expr)
            /\ \A n \in 1..Len(nodes) : \A stack \in OuterStacks :
                   nodes[n].type = "For" =>
                       Bind(generate_for(WalkFrom(stack), nodes[n], 1), LAMBDA g :
                           /\ ScopeNames(g.ctx) = stack
                           /\ \A i \in 1..Len(g.emitted) :
                                  g.emitted[i].scope =
                                      stack \o EnclosingAliases(
                                                   TreeNodes(<<nodes[n]>>),
                                                   g.emitted[i].expr)))

\* A loop over (v, k) holding a loop over x has been emitted, followed by
\* an interpolation of x outside both.
C16_Witness ==
    /\ GeneratedTemplate
    /\ \E i, j, l \in 1..Len(Emitted) :
           /\ i < j /\ j < l
           /\ Emitted[i].scope = <<<<"v">>, <<"k">>, <<"x">>>>
           /\ Emitted[i].expr.content = <<"x">>
           /\ Emitted[j].scope = <<<<"v">>, <<"k">>>>
           /\ Emitted[j].expr.content = <<"x">>
           /\ Emitted[l].scope = <<>>
           /\ Emitted[l].expr.content = <<"x">>

\* The value pattern of the slot directive of a template host, if it has
\* one.
SlotPattern(host) ==
    Bind(FindNamed(host.directives, <<"s", "l", "o", "t">>), LAMBDA d :
        IF IsSome(d) /\ IsSome(Unwrap(d).value)
        THEN Some(Unwrap(Unwrap(d).value).content)
        ELSE None)

SeqRange(s) == {s[i] : i \in 1..Len(s)}

\* C17: while generate_template walks a template host whose slot directive
\* has a value pattern, every name the pattern binds is on the scope stack
\* for each expression emitted below the host, and a single-identifier
\* expression naming it is emitted without the `__VLS_ctx.` prefix.
C17_SlotPropsInScope ==
    GeneratedTemplate =>
        Bind(TemplateNodes, LAMBDA nodes :
            \A n \in 1..Len(nodes) :
                (nodes[n].type = "Template" /\ IsSome(SlotPattern(nodes[n]))) =>
                    Bind(extract_binding_names(Unwrap(SlotPattern(nodes[n]))),
                         LAMBDA names :
                        \A i \in 1..Len(Emitted) :
                            SpanWithin(Emitted[i].expr.span, nodes[n].span) =>
                                /\ SeqRange(names) \subseteq SeqRange(Emitted[i].scope)
                                /\ StrTrim(Emitted[i].expr.content) \in SeqRange(names) =>
                                       Emitted[i].wrapped =
                                           StrTrim(Emitted[i].expr.content)))

\* The script-setup block declares the top-level binding `msg`.
DeclaresMsg ==
    /\ IsSome(Unwrap(gen_out).sfc.script_setup)
    /\ Unwrap(Unwrap(gen_out).sfc.script_setup).block.content
           = <<"c", "o", "n", "s", "t", " ", "m", "s", "g", " ", "=", " ", "r", "e", "f", "(", "'", "H", "e", "l", "l", "o", "'", ")">>

\* C18: for a component whose script-setup block declares `msg` and whose
\* template interpolates `msg`, generate() emits the expression statement
\* `(msg);`, with no `__VLS_ctx.` prefix.
C18_SetupBindingUnprefixed ==
    (GeneratedTemplate /\ DeclaresMsg) =>
        \A i \in 1..Len(Emitted) :
            StrTrim(Emitted[i].expr.content) = <<"m", "s", "g">> =>
                /\ Emitted[i].wrapped = <<"m", "s", "g">>
                /\ IsSome(StrFind(Unwrap(gen_out).result.code, <<"(", "m", "s", "g", ")", ";">>))

\* The text of the generated code from one offset up to another.
CodeBetween(from, to) == Slice(Unwrap(gen_out).result.code, from, to)

\* The expression is emitted as the statement `(<expr>);`.
EmittedAsStatement(expr) ==
    \E i \in 1..Len(Emitted) :
        /\ Emitted[i].expr = expr
        /\ Emitted[i].gen_start >= 1
        /\ CodeBetween(Emitted[i].gen_start - 1,
                       Emitted[i].gen_start + Len(Emitted[i].wrapped) + 2)
               = <<"(">> \o Emitted[i].wrapped \o <<")", ";">>

\* C20: for every Element node of the template tree, component or not,
\* each prop expression and each event-handler expression is emitted inside
\* __VLS_template as an expression statement `(<expr>);`.
C20_EveryElementChecked ==
    GeneratedTemplate =>
        Bind(TemplateNodes, LAMBDA nodes :
            \A n \in 1..Len(nodes) :
                nodes[n].type = "Element" =>
                    /\ \A k \in 1..Len(nodes[n].props) :
                           EmittedAsStatement(nodes[n].props[k].value)
                    /\ \A k \in 1..Len(nodes[n].events) :
                           EmittedAsStatement(nodes[n].events[k].handler))

(***************************************************************************)
(* SpecExpr: generate_expression applied to expression texts under scope   *)
(* stacks.                                                                 *)
(***************************************************************************)
ExprAlphabet == {"a", "Z", "1", "$", "_", " ", "."}

RECURSIVE ExprTexts(_)
ExprTexts(n) ==
    IF n = 0 THEN {<<>>}
    ELSE LET shorter == ExprTexts(n - 1)
         IN  shorter \cup {Append(t, c) : t \in shorter, c \in ExprAlphabet}

\* Names of host globals, near misses of them, and texts with tabs, line
\* breaks and a two-byte character.
ExprNamed ==
    {<<"M", "a", "t", "h">>, <<" ", "M", "a", "p", " ">>, <<"t", "h", "i", "s">>, <<"N", "a", "N">>, <<"m", "a", "t", "h">>, <<"M", "a", "p", "s">>, <<"\t", "M", "a", "t", "h", "\n">>, <<"a", "^", "~">>, <<"^", "~">>, <<"a", "-", "b">>, <<"x", " ", "?", " ", "a", " ", ":", " ", "Z">>}

ExprStacks == {<<>>, <<<<"a">>>>, <<<<"q">>, <<"a", "1">>, <<"M", "a", "t", "h">>, <<"_">>>>}

GenerateExpression(raw, stack) ==
    /\ ex_out = None
    /\ ex_raw' = raw
    /\ ex_scope' = stack
    /\ ex_out' = Some(generate_expression(
                          WalkFrom(stack),
                          Expression_new(raw, Span_new(0, Len(raw)))))
    /\ UNCHANGED notExpr

ExprInit == AllIdle

ExprNext ==
    \E raw \in ExprTexts(MaxExprLen) \cup ExprNamed, stack \in ExprStacks :
        GenerateExpression(raw, stack)

SpecExpr == ExprInit /\ [][ExprNext]_vars

\* [A-Za-z_$][A-Za-z0-9_$]*
IdentStart ==
    {"a", "b", "c", "d", "e", "f", "g", "h", "i", "j", "k", "l", "m",
     "n", "o", "p", "q", "r", "s", "t", "u", "v", "w", "x", "y", "z",
     "A", "B", "C", "D", "E", "F", "G", "H", "I", "J", "K", "L", "M",
     "N", "O", "P", "Q", "R", "S", "T", "U", "V", "W", "X", "Y", "Z",
     "_", "$"}
IdentPart ==
    IdentStart \cup {"0", "1", "2", "3", "4", "5", "6", "7", "8", "9"}
IsSingleIdentifier(t) ==
    /\ t # <<>>
    /\ t[1] \in IdentStart
    /\ \A i \in 2..Len(t) : t[i] \in IdentPart

\* C19: generate_expression rewrites an expression to `__VLS_ctx.<ident>`
\* exactly when its trimmed text is a single identifier that is neither a
\* host global nor bound on the scope stack; every other expression is
\* emitted as its trimmed text, unchanged.
C19_WrapExactlyFreeIdentifiers ==
    IsSome(ex_out) =>
        Bind(StrTrim(ex_raw), LAMBDA t :
            /\ Len(Unwrap(ex_out).emitted) = 1
            /\ Unwrap(ex_out).builder.code = Unwrap(ex_out).emitted[1].wrapped
            /\ Unwrap(ex_out).emitted[1].wrapped =
                   IF /\ IsSingleIdentifier(t)
                      /\ t \notin JsBuiltins
                      /\ t \notin SeqRange(ex_scope)
                   THEN <<"_", "_", "V", "L", "S", "_", "c", "t", "x", ".">> \o t
                   ELSE t)

\* The host global Math, written between a tab and a line break, has been
\* emitted under an empty scope stack.
C19_Witness ==
    /\ IsSome(ex_out)
    /\ ex_raw = <<"\t", "M", "a", "t", "h", "\n">>
    /\ ex_scope = <<>>
    /\ Unwrap(ex_out).builder.code = <<"M", "a", "t", "h">>

(***************************************************************************)
(* crates/vue-tsc-rs: Orchestrator::run_vue_diagnostics.  files.par_iter() *)
(* hands every file to exactly one worker of the pool; the workers share   *)
(* results: Arc<Mutex<Vec<..>>>.  A worker is at                           *)
(*   "idle"     between two files,                                         *)
(*   "check"    in check_vue_file(file),                                   *)
(*   "lock"     at results.lock(),                                         *)
(*   "push"     holding the guard, before Vec::push has read the vector,   *)
(*   "write"    holding the guard, before Vec::push has written it back,   *)
(*   "unlock"   at the end of the block, where the guard is dropped,       *)
(*   "panicked" unwinding out of the closure.                              *)
(***************************************************************************)
Files == 1..MaxFiles
Workers == 1..MaxWorkers

\* The files of a run: a file that cannot be read (None) or its content.
FileContents ==
    {None,
     Some(<<"<", "t", "e", "m", "p", "l", "a", "t", "e", ">", "<", "p", "/", ">", "<", "/", "t", "e", "m", "p", "l", "a", "t", "e", ">">>),
     Some(<<"<", "t", "e", "m", "p", "l", "a", "t", "e", ">", "<", "i", " ", "v", "-", "f", "o", "r", "=", "\"", "x", " ", "i", "n", " ", "y", "\"", "/", ">", "<", "/", "t", "e", "m", "p", "l", "a", "t", "e", ">">>),
     Some(<<"<", "a", ">">> \o <<LeadByte, ContByte, LeadByte, ContByte>>),
     Some(<<"<", "t", "e", "m", "p", "l", "a", "t", "e", ">", "<", "/", "i", ">", "<", "/", "t", "e", "m", "p", "l", "a", "t", "e", ">">>)}

\* Config::load: the options run_vue_diagnostics checks with.
Config_diagnostic_options == [DiagnosticOptions_default EXCEPT !.check_v_for_keys = TRUE]

\* check_vue_file: returns Ok((content, diagnostics)), returns Err (the file
\* cannot be read), unwinds (parse_sfc panics) or does not return
\* (parse_template repeats for ever).
check_vue_file(file) ==
    IF file = None THEN [kind |-> "Err"]
    ELSE Bind(parse_sfc(Unwrap(file)), LAMBDA parsed :
         IF parsed.kind # "ok" THEN [kind |-> "Panic"]
         ELSE Bind(diagnose_sfc(parsed.sfc, Config_diagnostic_options), LAMBDA d :
              IF d.kind = "hang" THEN [kind |-> "Hang"]
              ELSE [kind |-> "Ok", source |-> Unwrap(file),
                    diagnostics |-> d.diagnostics]))

\* Mutex::lock returns when no guard is alive.
Mutex_free(holder) == holder = None

\* let results = Arc::new(Mutex::new(Vec::new())); files.par_iter()
RunVueDiagnostics(files) ==
    /\ ~or_running /\ or_returned = None
    /\ or_running' = TRUE
    /\ or_outcome' = [f \in Files |-> check_vue_file(files[f])]
    /\ or_queue' = Files
    /\ UNCHANGED <<or_worker, or_lock, or_results, or_returned, notOrch>>

\* The pool gives the closure its next file.
Take(w, file) ==
    /\ or_running /\ or_worker[w].pc = "idle" /\ file \in or_queue
    /\ or_queue' = or_queue \ {file}
    /\ or_worker' = [or_worker EXCEPT ![w] = [@ EXCEPT !.pc = "check", !.file = file]]
    /\ UNCHANGED <<or_running, or_outcome, or_lock, or_results, or_returned, notOrch>>

\* match self.check_vue_file(file) { Ok((source, diagnostics)) => if !diagnostics.is_empty()
CheckOk(w) ==
    /\ or_worker[w].pc = "check"
    /\ or_outcome[or_worker[w].file].kind = "Ok"
    /\ or_worker' = [or_worker EXCEPT ![w] = [@ EXCEPT !.pc =
           IF or_outcome[or_worker[w].file].diagnostics # <<>>
           THEN "lock" ELSE "idle"]]
    /\ UNCHANGED <<or_running, or_outcome, or_queue, or_lock, or_results, or_returned, notOrch>>

\* Err(e) => eprintln!(..)
CheckErr(w) ==
    /\ or_worker[w].pc = "check"
    /\ or_outcome[or_worker[w].file].kind = "Err"
    /\ or_worker' = [or_worker EXCEPT ![w] = [@ EXCEPT !.pc = "idle"]]
    /\ UNCHANGED <<or_running, or_outcome, or_queue, or_lock, or_results, or_returned, notOrch>>

\* check_vue_file unwinds: the closure is left without a result.
CheckPanic(w) ==
    /\ or_worker[w].pc = "check"
    /\ or_outcome[or_worker[w].file].kind = "Panic"
    /\ or_worker' = [or_worker EXCEPT ![w] = [@ EXCEPT !.pc = "panicked"]]
    /\ UNCHANGED <<or_running, or_outcome, or_queue, or_lock, or_results, or_returned, notOrch>>

\* let mut results = results.lock().unwrap();
Lock(w) ==
    /\ or_worker[w].pc = "lock"
    /\ Mutex_free(or_lock)
    /\ or_lock' = Some(w)
    /\ or_worker' = [or_worker EXCEPT ![w] = [@ EXCEPT !.pc = "push"]]
    /\ UNCHANGED <<or_running, or_outcome, or_queue, or_results, or_returned, notOrch>>

\* results.push(..): the vector is read ...
PushRead(w) ==
    /\ or_worker[w].pc = "push"
    /\ or_worker' = [or_worker EXCEPT ![w] = [@ EXCEPT !.pc = "write", !.seen = or_results]]
    /\ UNCHANGED <<or_running, or_outcome, or_queue, or_lock, or_results, or_returned, notOrch>>

\* ... and written back one entry longer.
PushWrite(w) ==
    /\ or_worker[w].pc = "write"
    /\ or_results' = Append(or_worker[w].seen,
           [file |-> or_worker[w].file,
            source |-> or_outcome[or_worker[w].file].source,
            diagnostics |-> or_outcome[or_worker[w].file].diagnostics])
    /\ or_worker' = [or_worker EXCEPT ![w] = [@ EXCEPT !.pc = "unlock", !.seen = <<>>]]
    /\ UNCHANGED <<or_running, or_outcome, or_queue, or_lock, or_returned, notOrch>>

\* The guard goes out of scope.
Unlock(w) ==
    /\ or_worker[w].pc = "unlock"
    /\ or_lock' = IF or_lock = Some(w) THEN None ELSE or_lock
    /\ or_worker' = [or_worker EXCEPT ![w] = [@ EXCEPT !.pc = "idle"]]
    /\ UNCHANGED <<or_running, or_outcome, or_queue, or_results, or_returned, notOrch>>

\* for_each returns once every file has been through the closure, and not
\* at all when a closure unwound (the pool resumes the unwinding in the
\* caller) or has not come back.  Ok(Arc::try_unwrap(results)...into_inner())
Return ==
    /\ or_running /\ or_queue = {}
    /\ \A w \in Workers : or_worker[w].pc = "idle"
    /\ or_returned' = Some(or_results)
    /\ or_running' = FALSE
    /\ UNCHANGED <<or_outcome, or_queue, or_worker, or_lock, or_results, notOrch>>

OrchInit == AllIdle

OrchNext ==
    \/ \E files \in [Files -> FileContents] : RunVueDiagnostics(files)
    \/ \E w \in Workers, file \in Files : Take(w, file)
    \/ \E w \in Workers : CheckOk(w)
    \/ \E w \in Workers : CheckErr(w)
    \/ \E w \in Workers : CheckPanic(w)
    \/ \E w \in Workers : Lock(w)
    \/ \E w \in Workers : PushRead(w)
    \/ \E w \in Workers : PushWrite(w)
    \/ \E w \in Workers : Unlock(w)
    \/ Return

SpecOrch == OrchInit /\ [][OrchNext]_vars

\* The files whose check came back Ok with a non-empty diagnostics list.
Reportable == {f \in Files : or_outcome[f].kind = "Ok" /\ or_outcome[f].diagnostics # <<>>}

EntriesFor(list, f) == {i \in 1..Len(list) : list[i].file = f}

\* C30: whatever the interleaving of the workers, the list run_vue_diagnostics
\* returns holds exactly one entry (file, source, diagnostics) for each file
\* whose check came back Ok with diagnostics and none for any other file, and
\* a file that cannot be read or parsed is skipped without stopping the
\* checks of the other files: every check a worker is in comes back Ok or
\* Err, and no worker unwinds.
C30_ResultsExact ==
    /\ IsSome(or_returned) =>
           \A f \in Files :
               /\ Cardinality(EntriesFor(Unwrap(or_returned), f))
                      = IF f \in Reportable THEN 1 ELSE 0
               /\ \A i \in EntriesFor(Unwrap(or_returned), f) :
                      /\ Unwrap(or_returned)[i].source = or_outcome[f].source
                      /\ Unwrap(or_returned)[i].diagnostics = or_outcome[f].diagnostics
    /\ \A w \in Workers :
           /\ or_worker[w].pc # "panicked"
           /\ or_worker[w].pc = "check" =>
                  or_outcome[or_worker[w].file].kind \in {"Ok", "Err"}

(***************************************************************************)
(* check_template on what parse_template makes of a template, with the     *)
(* v-for key check on or off.                                              *)
(***************************************************************************)
DiagFragments ==
    {<<"<", "d", "i", "v", " ", "v", "-", "m", "o", "d", "e", "l", "=", "\"", "x", "\"", ">">>, <<"<", "/", "d", "i", "v", ">">>, <<"<", "i", "n", "p", "u", "t", " ", "v", "-", "m", "o", "d", "e", "l", "=", "\"", "x", "\"", "/", ">">>,
     <<"<", "s", "e", "l", "e", "c", "t", " ", "v", "-", "m", "o", "d", "e", "l", "=", "\"", "x", "\"", "/", ">">>, <<"<", "t", "e", "x", "t", "a", "r", "e", "a", " ", "v", "-", "m", "o", "d", "e", "l", "=", "\"", "x", "\"", "/", ">">>, <<"<", "C", " ", "v", "-", "m", "o", "d", "e", "l", "=", "\"", "x", "\"", "/", ">">>,
     <<"<", "m", "y", "-", "c", " ", "v", "-", "m", "o", "d", "e", "l", "=", "\"", "x", "\"", "/", ">">>, <<"<", "k", "e", "e", "p", "-", "a", "l", "i", "v", "e", " ", "v", "-", "m", "o", "d", "e", "l", "=", "\"", "x", "\"", "/", ">">>, <<"<", "s", "l", "o", "t", " ", "v", "-", "m", "o", "d", "e", "l", "=", "\"", "x", "\"", "/", ">">>,
     <<"<", "i", " ", "v", "-", "f", "o", "r", "=", "\"", "x", " ", "i", "n", " ", "y", "\"", "/", ">">>, <<"<", "i", " ", "v", "-", "f", "o", "r", "=", "\"", "x", " ", "i", "n", " ", "y", "\"", " ", ":", "k", "e", "y", "=", "\"", "x", "\"", "/", ">">>,
     <<"<", "u", " ", "v", "-", "f", "o", "r", "=", "\"", "a", " ", "i", "n", " ", "b", "\"", ">">>, <<"<", "b", " ", "v", "-", "i", "f", "=", "\"", "c", "\"", ">">>, <<"<", "s", "l", "o", "t", ">">>, <<"<", "t", "e", "m", "p", "l", "a", "t", "e", " ", "#", "d", ">">>, <<"<", "p", ">">>}

DiagSources == Concats(DiagFragments, MaxDiagFrags)

\* check_template(&parse_template(source)?, &options)
CheckTemplate(source, keys) ==
    /\ dg_out = None
    /\ dg_input' = source
    /\ dg_options' = [DiagnosticOptions_default EXCEPT !.check_v_for_keys = keys]
    /\ dg_out' = Some(Bind(parse_template(source), LAMBDA t :
                      IF t.kind = "ok"
                      THEN [kind |-> "ok", ast |-> t.ast,
                            diagnostics |-> check_template(t.ast, dg_options')]
                      ELSE t))
    /\ UNCHANGED <<notDiag>>

DiagTplInit == AllIdle

DiagTplNext == \E source \in DiagSources, keys \in BOOLEAN : CheckTemplate(source, keys)

SpecDiagTpl == DiagTplInit /\ [][DiagTplNext]_vars

\* check_template has returned for the template handed over.
Checked == IsSome(dg_out) /\ Unwrap(dg_out).kind = "ok"

CheckedNodes == TreeNodes(Unwrap(dg_out).ast.children)

Reported(code) ==
    {i \in 1..Len(Unwrap(dg_out).diagnostics) : Unwrap(dg_out).diagnostics[i].code = code}

\* The tag a node of the tree was written with.
NodeTag(node) == IF node.type = "Template" THEN <<"t", "e", "m", "p", "l", "a", "t", "e">> ELSE node.tag

\* The tags the specification lets carry v-model: the three form elements
\* and the components of the tag classification.
MayCarryModel(tag) ==
    \/ tag \in {<<"i", "n", "p", "u", "t">>, <<"s", "e", "l", "e", "c", "t">>, <<"t", "e", "x", "t", "a", "r", "e", "a">>}
    \/ get_element_type(tag) = "Component"

\* The nodes that keep the directives their tag was written with.
ModelCarriers ==
    {i \in 1..Len(CheckedNodes) :
        /\ CheckedNodes[i].type \in {"Element", "Template"}
        /\ IsSome(FindNamed(CheckedNodes[i].directives, <<"m", "o", "d", "e", "l">>))}

\* C21: check_template reports an InvalidVModel error, at the span of the
\* `model` directive, for every tag carrying a `model` directive that is not
\* input, select, textarea or a component of the tag classification, and
\* reports none for a tag that is.
C21_InvalidVModelReported ==
    Checked =>
        /\ \A i \in ModelCarriers :
               ~MayCarryModel(NodeTag(CheckedNodes[i])) =>
                   \E d \in Reported("InvalidVModel") :
                       /\ Unwrap(dg_out).diagnostics[d].severity = "Error"
                       /\ Unwrap(dg_out).diagnostics[d].span
                              = Unwrap(FindNamed(CheckedNodes[i].directives, <<"m", "o", "d", "e", "l">>)).span
        /\ \A d \in Reported("InvalidVModel") :
               \E i \in ModelCarriers :
                   /\ ~MayCarryModel(NodeTag(CheckedNodes[i]))
                   /\ Unwrap(dg_out).diagnostics[d].span
                          = Unwrap(FindNamed(CheckedNodes[i].directives, <<"m", "o", "d", "e", "l">>)).span

\* The For nodes of the tree that have no key, and those among them at a span.
KeylessFors ==
    {i \in 1..Len(CheckedNodes) :
        CheckedNodes[i].type = "For" /\ CheckedNodes[i].key_attr = None}

KeylessForsAt(span) == {i \in KeylessFors : CheckedNodes[i].span = span}

MissingKeysAt(span) ==
    {d \in Reported("MissingKey") : Unwrap(dg_out).diagnostics[d].span = span}

\* C22: with check_v_for_keys on, check_template reports exactly one
\* MissingKey warning, at the span of the node, for each For node without a
\* key wherever it sits in the tree, and no other; with the option off it
\* reports no MissingKey.
C22_MissingKeyPerFor ==
    Checked =>
        IF dg_options.check_v_for_keys
        THEN /\ \A i \in KeylessFors :
                    Cardinality(MissingKeysAt(CheckedNodes[i].span))
                        = Cardinality(KeylessForsAt(CheckedNodes[i].span))
             /\ \A d \in Reported("MissingKey") :
                    /\ Unwrap(dg_out).diagnostics[d].severity = "Warning"
                    /\ KeylessForsAt(Unwrap(dg_out).diagnostics[d].span) # {}
        ELSE Reported("MissingKey") = {}

\* A keyless For node below another keyless For node, both reported.
C22_Witness ==
    /\ Checked /\ dg_options.check_v_for_keys
    /\ dg_input = <<"<", "u", " ", "v", "-", "f", "o", "r", "=", "\"", "a", " ", "i", "n", " ", "b", "\"", ">">> \o <<"<", "i", " ", "v", "-", "f", "o", "r", "=", "\"", "x", " ", "i", "n", " ", "y", "\"", "/", ">">>
    /\ Cardinality(Reported("MissingKey")) = Cardinality(KeylessFors)
    /\ Cardinality(KeylessFors) = 2

(***************************************************************************)
(* diagnose_sfc on what parse_sfc makes of a file whose script-setup block *)
(* calls macros.                                                           *)
(***************************************************************************)
MacroFragments ==
    {<<"d", "e", "f", "i", "n", "e", "P", "r", "o", "p", "s", ";">>, <<"d", "e", "f", "i", "n", "e", "E", "m", "i", "t", "s", ";">>, <<"d", "e", "f", "i", "n", "e", "S", "l", "o", "t", "s", ";">>, <<"d", "e", "f", "i", "n", "e", "E", "x", "p", "o", "s", "e", ";">>,
     <<"d", "e", "f", "i", "n", "e", "O", "p", "t", "i", "o", "n", "s", ";">>, <<"d", "e", "f", "i", "n", "e", "M", "o", "d", "e", "l", ";">>, <<"x", ";">>}

MacroSources ==
    {<<"<", "s", "c", "r", "i", "p", "t", " ", "s", "e", "t", "u", "p", ">">> \o body \o <<"<", "/", "s", "c", "r", "i", "p", "t", ">">> :
        body \in Concats(MacroFragments, MaxMacroFrags)}

\* diagnose_sfc(&parse_sfc(source)?, &DiagnosticOptions::default())
DiagnoseSfc(source) ==
    /\ dg_out = None
    /\ dg_input' = source
    /\ dg_out' = Some(Bind(parse_sfc(source), LAMBDA p :
                      IF p.kind = "ok"
                      THEN Bind(diagnose_sfc(p.sfc, dg_options), LAMBDA d :
                           IF d.kind = "ok"
                           THEN [kind |-> "ok", sfc |-> p.sfc,
                                 diagnostics |-> d.diagnostics]
                           ELSE d)
                      ELSE [kind |-> p.kind]))
    /\ UNCHANGED <<dg_options, notDiag>>

DiagSfcInit == AllIdle

DiagSfcNext == \E source \in MacroSources : DiagnoseSfc(source)

SpecDiagSfc == DiagSfcInit /\ [][DiagSfcNext]_vars

\* How often a word is written in a text.
Occurrences(text, word) ==
    Cardinality({i \in 0..Len(text) : StartsWithAt(text, i, word)})

\* The DuplicateMacro errors reported for a macro.
DuplicateReports(macro) ==
    {d \in Reported("DuplicateMacro") :
        StartsWithAt(Unwrap(dg_out).diagnostics[d].message, 0, macro \o <<" ">>)}

\* C23: for each of defineProps, defineEmits, defineSlots, defineExpose and
\* defineOptions written more than once in the script-setup content,
\* diagnose_sfc reports exactly one DuplicateMacro error, however often the
\* macro is repeated, and the span of the error is the span of the
\* script-setup block; a macro written at most once is not reported.
C23_OneDuplicateMacroAtBlockSpan ==
    (Checked /\ IsSome(Unwrap(dg_out).sfc.script_setup)) =>
        \A m \in 1..Len(CountedMacros) :
            /\ Cardinality(DuplicateReports(CountedMacros[m]))
                   = IF Occurrences(Unwrap(Unwrap(dg_out).sfc.script_setup).block.content,
                                    CountedMacros[m]) > 1
                     THEN 1 ELSE 0
            /\ \A d \in DuplicateReports(CountedMacros[m]) :
                   /\ Unwrap(dg_out).diagnostics[d].severity = "Error"
                   /\ Unwrap(dg_out).diagnostics[d].span
                          = Unwrap(Unwrap(dg_out).sfc.script_setup).block.span

(***************************************************************************)
(* check_component_name on names in every casing of their first letters.   *)
(***************************************************************************)
NameWords ==
    {<<"s", "l", "o", "t">>, <<"c", "o", "m", "p", "o", "n", "e", "n", "t">>, <<"t", "e", "m", "p", "l", "a", "t", "e">>, <<"s", "c", "r", "i", "p", "t">>, <<"s", "t", "y", "l", "e">>, <<"h", "t", "m", "l">>, <<"b", "o", "d", "y">>,
     <<"h", "e", "a", "d">>, <<"b", "a", "s", "e">>, <<"s", "l", "o", "t", "s">>, <<"b", "u", "t", "t", "o", "n">>, <<"h", "e", "a", "d", "e", "r">>, <<"m", "y", "b", "a", "s", "e">>}

to_ascii_uppercase(c) ==
    IF c \in AsciiLower
    THEN UpperSeq[CHOOSE i \in 1..Len(LowerSeq) : LowerSeq[i] = c]
    ELSE c

\* The word with its first MaxCased letters in every mix of cases.
Casings(word) ==
    {[i \in 1..Len(word) |->
         IF i <= MaxCased /\ mask[i] THEN to_ascii_uppercase(word[i]) ELSE word[i]] :
        mask \in [1..MaxCased -> BOOLEAN]}

ComponentNames == {<<>>} \cup UNION {Casings(word) : word \in NameWords}

CheckComponentName(name) ==
    /\ dg_out = None
    /\ dg_input' = name
    /\ dg_out' = Some(check_component_name(name))
    /\ UNCHANGED <<dg_options, notDiag>>

NameInit == AllIdle

NameNext == \E name \in ComponentNames : CheckComponentName(name)

SpecName == NameInit /\ [][NameNext]_vars

\* The names the specification reserves.
ReservedNames ==
    {<<"s", "l", "o", "t">>, <<"c", "o", "m", "p", "o", "n", "e", "n", "t">>, <<"t", "e", "m", "p", "l", "a", "t", "e">>, <<"s", "c", "r", "i", "p", "t">>, <<"s", "t", "y", "l", "e">>, <<"h", "t", "m", "l">>, <<"b", "o", "d", "y">>,
     <<"h", "e", "a", "d">>, <<"b", "a", "s", "e">>}

\* C24: check_component_name returns an Error diagnostic for every name
\* whose lowercased form is slot, component, template, script, style, html,
\* body, head or base, whatever the casing of the name.
C24_ReservedNameIsError ==
    (IsSome(dg_out) /\ to_lowercase(dg_input) \in ReservedNames) =>
        /\ IsSome(Unwrap(dg_out))
        /\ Unwrap(Unwrap(dg_out)).severity = "Error"

\* Every block parse_sfc stored in the component.
StoredBlocks(sfc) ==
    (IF IsSome(sfc.template) THEN <<Unwrap(sfc.template).block>> ELSE <<>>)
    \o (IF IsSome(sfc.script) THEN <<Unwrap(sfc.script).block>> ELSE <<>>)
    \o (IF IsSome(sfc.script_setup) THEN <<Unwrap(sfc.script_setup).block>> ELSE <<>>)
    \o [n \in 1..Len(sfc.styles) |-> sfc.styles[n].block]
    \o [n \in 1..Len(sfc.custom_blocks) |-> sfc.custom_blocks[n].block]

\* C26: every block attribute with a value that parse_sfc returns has
\* value_span.start <= value_span.end, and the bytes of the file at
\* value_span are the attribute's value, for quoted and unquoted values and
\* for a quoted value the end of the file leaves unterminated.
C26_ValueSpanIsValue ==
    (IsSome(sfc_out) /\ Unwrap(sfc_out).kind = "ok") =>
        \A b \in SeqRange(StoredBlocks(Unwrap(sfc_out).sfc)) :
            \A a \in SeqRange(b.attrs) :
                IsSome(a.value) =>
                    /\ Unwrap(a.value_span).start <= Unwrap(a.value_span).end
                    /\ Slice(sfc_source, Unwrap(a.value_span).start,
                             Unwrap(a.value_span).end) = Unwrap(a.value)

(***************************************************************************)
(* SpecNest: parse_sfc on a template block whose content holds elements,   *)
(* among them elements named template.                                     *)
(***************************************************************************)
NestFragments ==
    {<<"<", "t", "e", "m", "p", "l", "a", "t", "e", " ", "v", "-", "i", "f", "=", "\"", "a", "\"", ">">>, <<"<", "t", "e", "m", "p", "l", "a", "t", "e", ">">>, <<"<", "/", "t", "e", "m", "p", "l", "a", "t", "e", ">">>, <<"<", "p", ">">>, <<"<", "/", "p", ">">>, <<"x">>}

NestSources ==
    {<<"<", "t", "e", "m", "p", "l", "a", "t", "e", ">">> \o body \o <<"<", "/", "t", "e", "m", "p", "l", "a", "t", "e", ">">> : body \in Concats(NestFragments, MaxNestFrags)}

NestInit == AllIdle

NestNext == \E source \in NestSources : ParseSfc(source)

SpecNest == NestInit /\ [][NestNext]_vars

\* Whether an opening tag named tag starts at 0-based offset p.
OpensAt(source, p, tag) ==
    /\ StartsWithAt(source, p, <<"<">> \o tag)
    /\ p + Len(tag) + 1 < Len(source)
    /\ source[p + Len(tag) + 2] \in {">", " "}

\* Whether an end tag named tag starts at 0-based offset p.
ClosesAt(source, p, tag) ==
    /\ StartsWithAt(source, p, <<"<", "/">> \o tag)
    /\ p + Len(tag) + 2 < Len(source)
    /\ source[p + Len(tag) + 3] \in {">", " "}

\* The nesting depth of elements named tag just before offset p, counted from
\* offset from, where it is 1.
NestDepth(source, from, p, tag) ==
    1 + Cardinality({q \in from..(p - 1) : OpensAt(source, q, tag)})
      - Cardinality({q \in from..(p - 1) : ClosesAt(source, q, tag)})

\* The offsets of the end tag that closes the element whose content starts at
\* from: the first end tag at depth 1.
ClosingTags(source, from, tag) ==
    {p \in from..Len(source) :
        /\ ClosesAt(source, p, tag)
        /\ NestDepth(source, from, p, tag) = 1
        /\ \A q \in from..(p - 1) :
               ClosesAt(source, q, tag) => NestDepth(source, from, q, tag) > 1}

\* C25: the content_span of a block that is not self-closing runs from the
\* `>` of its opening tag to the `<` of the end tag that closes the block,
\* also when the content holds elements of the same tag name: the content is
\* not cut at an inner end tag.
C25_ContentRunsToClosingTag ==
    (IsSome(sfc_out) /\ Unwrap(sfc_out).kind = "ok"
        /\ IsSome(Unwrap(sfc_out).sfc.template)) =>
        \A p \in ClosingTags(sfc_source,
                     Unwrap(Unwrap(sfc_out).sfc.template).block.content_span.start,
                     Str_template) :
            /\ Unwrap(Unwrap(sfc_out).sfc.template).block.content_span.end = p
            /\ Unwrap(Unwrap(sfc_out).sfc.template).block.content
                   = Slice(sfc_source,
                       Unwrap(Unwrap(sfc_out).sfc.template).block.content_span.start, p)

(***************************************************************************)
(* SpecCond: generate() on templates with v-if, v-else-if, v-else and      *)
(* v-for elements.                                                         *)
(***************************************************************************)
CondFragments ==
    {<<"<", "i", " ", "v", "-", "i", "f", "=", "\"", "a", "\"", ">", "t", "<", "/", "i", ">">>, <<"<", "i", " ", "v", "-", "e", "l", "s", "e", "-", "i", "f", "=", "\"", "b", "\"", ">", "t", "<", "/", "i", ">">>, <<"<", "i", " ", "v", "-", "e", "l", "s", "e", ">", "t", "<", "/", "i", ">">>,
     <<"<", "b", " ", "v", "-", "i", "f", ">", "t", "<", "/", "b", ">">>, <<"<", "i", " ", "v", "-", "f", "o", "r", "=", "\"", "i", "t", "e", "m", "s", " ", "i", "n", " ", "i", "t", "e", "m", "s", "\"", ">", "{", "{", "i", "t", "e", "m", "s", "}", "}", "<", "/", "i", ">">>,
     <<"<", "i", " ", "v", "-", "f", "o", "r", "=", "\"", "x", " ", "i", "n", " ", "y", "\"", ">", "{", "{", "x", "}", "}", "<", "/", "i", ">">>, <<"<", "u", " ", "v", "-", "f", "o", "r", "=", "\"", "y", " ", "i", "n", " ", "x", "\"", ">">>, <<"<", "/", "u", ">">>, <<"{", "{", "m", "s", "g", "}", "}">>}

CondSources ==
    {setup \o <<"<", "t", "e", "m", "p", "l", "a", "t", "e", ">">> \o body \o <<"<", "/", "t", "e", "m", "p", "l", "a", "t", "e", ">">> :
        setup \in {<<>>, <<"<", "s", "c", "r", "i", "p", "t", " ", "s", "e", "t", "u", "p", ">", "c", "o", "n", "s", "t", " ", "m", "s", "g", " ", "=", " ", "r", "e", "f", "(", "'", "H", "e", "l", "l", "o", "'", ")", "<", "/", "s", "c", "r", "i", "p", "t", ">">>},
        body \in Concats(CondFragments, MaxCondFrags)}

CondInit == AllIdle

CondNext == \E source \in CondSources : GenerateVirtualFile(source)

SpecCond == CondInit /\ [][CondNext]_vars

\* The branches of the If nodes of the template tree.
IfBranches ==
    UNION {SeqRange(n.branches) : n \in {m \in SeqRange(TemplateNodes) : m.type = "If"}}

\* The expression is emitted between `if (` or `else if (` and `) {`.
EmittedAsCondition(expr) ==
    \E i \in 1..Len(Emitted) :
        /\ Emitted[i].expr = expr
        /\ Emitted[i].gen_start >= 4
        /\ CodeBetween(Emitted[i].gen_start - 4,
                       Emitted[i].gen_start + Len(Emitted[i].wrapped) + 3)
               = <<"i", "f", " ", "(">> \o Emitted[i].wrapped \o <<")", " ", "{">>

\* C27: for every If node parse_template makes, generate_if emits a
\* well-formed conditional: the condition of a branch that has one is emitted
\* inside `if (...)` or `else if (...)`, and `if (` with an empty condition
\* is never emitted (a v-else branch is an else block).
C27_NoEmptyCondition ==
    GeneratedTemplate =>
        /\ \A p \in 0..Len(Unwrap(gen_out).result.code) :
               ~StartsWithAt(Unwrap(gen_out).result.code, p, <<"i", "f", " ", "(", ")", " ", "{">>)
        /\ \A b \in IfBranches :
               IsSome(b.condition) => EmittedAsCondition(Unwrap(b.condition))

\* The aliases of the For nodes around a For node, outermost first: the
\* scope in effect outside the loop.
AliasesOutside(nodes, n) ==
    EnclosingAliases(SelectSeq(nodes, LAMBDA m : m # n), n.source)

\* C28: the source expression of a For node is wrapped against the scope in
\* effect outside the loop: a single-identifier source that is no builtin,
\* no script binding and no alias of a For node around the loop is emitted
\* with the `__VLS_ctx.` prefix, whatever the loop's own aliases are.
C28_ForSourceOuterScope ==
    GeneratedTemplate =>
        Bind(TemplateNodes, LAMBDA nodes :
            \A n \in 1..Len(nodes) : \A i \in 1..Len(Emitted) :
                (/\ nodes[n].type = "For"
                 /\ Emitted[i].expr = nodes[n].source
                 /\ is_simple_identifier(StrTrim(nodes[n].source.content))
                 /\ ~is_js_builtin(StrTrim(nodes[n].source.content))
                 /\ ~(DeclaresMsg /\ StrTrim(nodes[n].source.content) = <<"m", "s", "g">>)
                 /\ StrTrim(nodes[n].source.content)
                        \notin SeqRange(AliasesOutside(nodes, nodes[n])))
                => Emitted[i].wrapped
                       = <<"_", "_", "V", "L", "S", "_", "c", "t", "x", ".">> \o StrTrim(nodes[n].source.content))

(***************************************************************************)
(* SpecScale: to_source_offset on a map of one mapping whose offsets and   *)
(* lengths are small, about 2^16 or the largest u32.                       *)
(***************************************************************************)
ScaleSamples ==
    {BitsOf(n) : n \in 0..MaxSmall}
        \cup {BitsPow2(U32Bits \div 2), BitsAdd(BitsPow2(U32Bits \div 2), <<1>>), U32_MAX}

\* The mappings whose generated and source ranges end inside the u32 range.
ScaleMappings ==
    {m \in [generated_offset : ScaleSamples, generated_length : ScaleSamples,
            source_offset : ScaleSamples, source_length : ScaleSamples] :
        /\ U32_fits(BitsAdd(m.generated_offset, m.generated_length))
        /\ U32_fits(BitsAdd(m.source_offset, m.source_length))}

ToSourceOffset(mapping, generated_offset, overflow_checks) ==
    /\ sc_out = None
    /\ sc_mapping' = Some(mapping)
    /\ sc_offset' = generated_offset
    /\ sc_out' = Some(SourceMap_to_source_offset_u32(mapping, generated_offset,
                                                     overflow_checks))
    /\ UNCHANGED notScale

ScaleInit == AllIdle

ScaleNext ==
    \E mapping \in ScaleMappings, generated_offset \in ScaleSamples,
       overflow_checks \in BOOLEAN :
        ToSourceOffset(mapping, generated_offset, overflow_checks)

SpecScale == ScaleInit /\ [][ScaleNext]_vars

\* C29: for a mapping with generated_length > 0 and an offset inside its
\* generated range, to_source_offset computes delta * source_length without
\* leaving 32 bits, and its result lies in
\* [source_offset, source_offset + source_length].
C29_ScaledWithoutOverflow ==
    (/\ IsSome(sc_out)
     /\ Unwrap(sc_mapping).generated_length # <<>>
     /\ IsSome(SourceMap_find_source_u32(Unwrap(sc_mapping), sc_offset))) =>
        /\ Unwrap(sc_out).kind = "ok"
        /\ ~Unwrap(sc_out).overflow
        /\ IsSome(Unwrap(sc_out).value)
        /\ BitsLe(Unwrap(sc_mapping).source_offset, Unwrap(Unwrap(sc_out).value))
        /\ BitsLe(Unwrap(Unwrap(sc_out).value),
                  BitsAdd(Unwrap(sc_mapping).source_offset,
                          Unwrap(sc_mapping).source_length))

====
